---- MODULE Spec2Model ----
(***************************************************************************)
(* A model of the crawler and knowledge index of src/main-improved.py:     *)
(* scrape_website (the recursive crawl), discover_links and                *)
(* is_valid_srm_page (the link filter), build_knowledge_database (the      *)
(* rebuild of KNOWLEDGE_DATABASE), get_relevant_scraped_info (the query)   *)
(* and the threads that run them (periodic_scraping, the request loop);    *)
(* and of FaqService.find_best_match of src/app/services/faq_service.py.   *)
(*                                                                         *)
(* Strings are sequences of chunks: a URL "https://srmist.edu.in/a" is     *)
(* <<"https://", "srmist.edu.in", "/", "a">>, and Python's substring test  *)
(* `p in s` is containment of the chunk sequence of p in that of s.        *)
(***************************************************************************)
EXTENDS Integers, Sequences, FiniteSets, TLC

VARIABLES
    max_pages,       \* scrape_website: the page budget of the run
    visited_urls,    \* scrape_website: the run-wide set of visited URLs
    stack,           \* the activation records of scrape_website, innermost last
    result,          \* what the outermost scrape_website call returned
    fetchLog,        \* history: one entry per requests.get issued
    refused,         \* history: the URLs of the calls that returned None on entry
    KNOWLEDGE_DATABASE,    \* category -> list of texts
    last_database_update,  \* timestamp of the last completed build
    scraped_data,    \* source id -> root page record
    clock,           \* datetime.now()
    thr,             \* thread -> what the thread is executing
    bld,             \* thread -> locals of its build_knowledge_database call
    qry,             \* locals of the get_relevant_scraped_info call
    hist,            \* what an observer of the index has noted
    faq,             \* FaqService: the FAQ table, the lock and the find_best_match call
    SCRAPING_SOURCES,  \* source id -> its url, enabled flag and max_pages
    calls            \* history: what periodic_scraping has called in the current turn

crawlVars == <<max_pages, visited_urls, stack, result, fetchLog, refused>>
indexVars == <<KNOWLEDGE_DATABASE, last_database_update, scraped_data, clock,
               thr, bld, qry, hist>>
faqVars == <<faq>>
schedVars == <<SCRAPING_SOURCES, calls>>
vars == <<max_pages, visited_urls, stack, result, fetchLog, refused,
          KNOWLEDGE_DATABASE, last_database_update, scraped_data, clock,
          thr, bld, qry, hist, faq, SCRAPING_SOURCES, calls>>

(***************************************************************************)
(* Bounds of the model.                                                    *)
(***************************************************************************)
\* the largest page budget a crawl run is started with
MaxBudget == 3

(***************************************************************************)
(* Program constants.                                                      *)
(***************************************************************************)
\* discover_links(url, soup, max_links=100)
MaxLinks == 100
\* if sub_pages_scraped >= 50: break
SubPageLimit == 50

(***************************************************************************)
(* Sequences and strings.                                                  *)
(***************************************************************************)
Range(s) == {s[i] : i \in 1..Len(s)}

Take(s, n) == SubSeq(s, 1, IF Len(s) < n THEN Len(s) ELSE n)

\* Python `p in s` for strings
Contains(s, p) ==
    \E i \in 1..(Len(s) - Len(p) + 1) : SubSeq(s, i, i + Len(p) - 1) = p

\* str.lower(), chunk by chunk
LowerChunk(c) ==
    CASE c = "SRMIST.EDU.IN" -> "srmist.edu.in"
      [] c = "Admissions" -> "admissions"
      [] c = "B" -> "b"
      [] OTHER -> c

Lower(s) == [i \in 1..Len(s) |-> LowerChunk(s[i])]

RECURSIVE RStripSlash(_)
\* str.rstrip('/')
RStripSlash(s) ==
    IF s # <<>> /\ s[Len(s)] = "/" THEN RStripSlash(SubSeq(s, 1, Len(s) - 1)) ELSE s

RECURSIVE LStripSlash(_)
\* str.lstrip('/')
LStripSlash(s) ==
    IF s # <<>> /\ Head(s) = "/" THEN LStripSlash(Tail(s)) ELSE s

\* str.startswith('/')
StartsWithSlash(h) == h # <<>> /\ Head(h) = "/"

\* str.startswith('./')
StartsWithDotSlash(h) == Len(h) >= 2 /\ h[1] = "." /\ h[2] = "/"

\* str.startswith('http')
StartsWithHttp(h) == h # <<>> /\ Head(h) \in {"https://", "http://"}

(***************************************************************************)
(* is_valid_srm_page                                                       *)
(***************************************************************************)
skip_patterns ==
    { <<".pdf">>, <<".doc">>, <<".docx">>, <<".xls">>, <<".xlsx">>, <<".ppt">>,
      <<".pptx">>, <<".jpg">>, <<".jpeg">>, <<".png">>, <<".gif">>, <<".svg">>,
      <<".ico">>, <<".css">>, <<".js">>, <<".xml">>, <<".json">>, <<".txt">>,
      <<"mailto:">>, <<"tel:">>, <<"javascript:">>, <<"#">>,
      <<"/", "admin", "/">>, <<"/", "login">>, <<"/", "logout">>,
      <<"/", "api", "/">>,
      <<"facebook.com">>, <<"twitter.com">>, <<"linkedin.com">>, <<"youtube.com">> }

srm_domains == { <<"srmist.edu.in">>, <<"srmuniversity.ac.in">> }

\* no pattern is skipped
MatchesNoPattern(url) == FALSE

MatchesSkipPattern(url) == \E p \in skip_patterns : Contains(Lower(url), p)

MentionsSrmDomain(url) == \E d \in srm_domains : Contains(Lower(url), d)

is_valid_srm_page(url) ==
    IF MatchesSkipPattern(url) THEN FALSE
    ELSE IF ~MentionsSrmDomain(url) THEN FALSE
    ELSE TRUE

(***************************************************************************)
(* Texts.  A text is [id, words, len]: the words that decide the keyword   *)
(* tests, its length in characters, and an id standing for the rest of     *)
(* its characters (two texts are the same string iff the records are       *)
(* equal).  KeywordsIn(w) is the set of keywords of the code's lists that  *)
(* are substrings of the lower-cased word w.                               *)
(***************************************************************************)
LowerWord(w) ==
    CASE w = "Deadline" -> "deadline"
      [] w = "Hostel" -> "hostel"
      [] w = "Application" -> "application"
      [] OTHER -> w

KeywordsIn(w) ==
    CASE w = "admission" -> {"admission"}
      [] w = "deadline" -> {"deadline"}
      [] w = "information" -> {"form"}
      [] w = "engineering" -> {"engineering"}
      [] w = "course" -> {"course"}
      [] w = "faculty" -> {"faculty"}
      [] w = "research" -> {"research"}
      [] w = "conference" -> {"conference"}
      [] w = "festival" -> {"festival"}
      [] w = "laboratory" -> {"laboratory"}
      [] w = "hostel" -> {"hostel"}
      [] w = "students" -> {"students"}
      [] w = "srmjee" -> {"srmjee"}
      [] w = "application" -> {"application"}
      [] OTHER -> {}

\* any(keyword in text.lower() for keyword in keywords)
HasAny(text, keywords) ==
    \E i \in 1..Len(text.words) : KeywordsIn(LowerWord(text.words[i])) \cap keywords # {}

Txt(id, words, len) == [id |-> id, words |-> words, len |-> len]

(***************************************************************************)
(* discover_links                                                          *)
(***************************************************************************)
\* Method 1: Convert relative URLs to absolute
ResolveAnchor(base_url, href) ==
    IF StartsWithSlash(href) THEN RStripSlash(base_url) \o href
    ELSE IF StartsWithDotSlash(href) THEN RStripSlash(base_url) \o Tail(href)
    ELSE IF ~StartsWithHttp(href) THEN RStripSlash(base_url) \o <<"/">> \o LStripSlash(href)
    ELSE href

\* Method 2: the same without the './' branch
ResolveContainer(base_url, href) ==
    IF StartsWithSlash(href) THEN RStripSlash(base_url) \o href
    ELSE IF ~StartsWithHttp(href) THEN RStripSlash(base_url) \o <<"/">> \o LStripSlash(href)
    ELSE href

\* if href not in discovered_links: discovered_links.append(href)
AppendNew(found, href) == IF href \in Range(found) THEN found ELSE Append(found, href)

\* the loop `for ...: if href not in discovered_links: discovered_links.append(href)`
\* over hrefs: each href that is not in found is appended at its first occurrence
AppendAllNew(found, hrefs) ==
    LET numbered == [i \in 1..Len(hrefs) |-> [i |-> i, href |-> hrefs[i]]]
        new == SelectSeq(numbered, LAMBDA e : /\ e.href \notin Range(found)
                                              /\ \A j \in 1..(e.i - 1) : hrefs[j] # e.href)
    IN  found \o [k \in 1..Len(new) |-> new[k].href]

\* Method 1: the anchors with an href, resolved, that mention an SRM domain
LinksFromAnchors(base_url, anchors, found) ==
    LET given == SelectSeq(anchors, LAMBDA h : h # <<>>)
        resolved == [i \in 1..Len(given) |-> ResolveAnchor(base_url, given[i])]
    IN  AppendAllNew(found, SelectSeq(resolved, MentionsSrmDomain))

\* a container whose first anchor carries no href: link.find('a')['href'] raises
NoHref == <<"<a>">>

LinksFromContainers(base_url, containers, found) ==
    LET resolved == [i \in 1..Len(containers) |-> ResolveContainer(base_url, containers[i])]
    IN  AppendAllNew(found, SelectSeq(resolved, MentionsSrmDomain))

\* Method 3: the regex  ["'](https?://[^"']*srmist\.edu\.in[^"']*)["']
LinksFromScripts(literals, found) ==
    AppendAllNew(found,
        SelectSeq(literals, LAMBDA h : StartsWithHttp(h) /\ Contains(Tail(h), <<"srmist.edu.in">>)))

\* Method 4
LinksFromMetas(contents, found) ==
    AppendAllNew(found,
        SelectSeq(contents, LAMBDA h : h # <<>> /\ Contains(h, <<"srmist.edu.in">>)
                                        /\ StartsWithHttp(h)))

\* Methods 5 and 6: iframe src, form action
LinksFromAttrs(values, found) ==
    AppendAllNew(found,
        SelectSeq(values, LAMBDA h : h # <<>> /\ Contains(h, <<"srmist.edu.in">>)))

discover_links(base_url, soup, max_links) ==
    IF NoHref \in Range(soup.containers) THEN <<>>     \* except Exception: return []
    ELSE LET m1 == LinksFromAnchors(base_url, soup.anchors, <<>>)
             m2 == LinksFromContainers(base_url, soup.containers, m1)
             m3 == LinksFromScripts(soup.scripts, m2)
             m4 == LinksFromMetas(soup.metas, m3)
             m5 == LinksFromAttrs(soup.iframes, m4)
             m6 == LinksFromAttrs(soup.forms, m5)
         IN  Take(m6, max_links)

(***************************************************************************)
(* scrape_website: the content extracted from one fetched page.  A page    *)
(* (soup) is [anchors, containers, scripts, metas, iframes, forms, tags];  *)
(* a tag is [name, text].  The title, the navigation links and the images  *)
(* are left out: nothing reads them back.  Texts carry single spaces, so   *)
(* ' '.join(text.split()) leaves them as they are.                         *)
(***************************************************************************)
HeadingTags == {"p", "h1", "h2", "h3", "h4", "h5", "h6"}

BlockTags == {"p", "div", "span", "h1", "h2", "h3", "h4", "h5", "h6"}

\* scraped_info["content"]["main_content"]
MainContentLimit == 30

MainContentOf(tags) ==
    LET picked == Take(SelectSeq(tags, LAMBDA t : t.name \in HeadingTags), MainContentLimit)
        filled == SelectSeq(picked, LAMBDA t : t.text.len > 0)
    IN  [i \in 1..Len(filled) |-> filled[i].text]

admission_skip_words ==
    {"menu", "students", "faculty", "staff", "parents", "visitors", "alumni",
     "examinations", "campuses"}

admission_extract_keywords ==
    {"admission", "apply", "deadline", "form", "requirement", "enrollment",
     "entrance", "exam", "cutoff", "merit", "eligibility", "procedure", "process",
     "date", "last date", "application", "2025", "2024", "btech", "mtech", "phd",
     "engineering", "medical", "management"}

specific_admission_keywords ==
    {"srmjee", "neet", "cutoff", "merit list", "admission open", "last date",
     "application form"}

course_extract_keywords ==
    {"course", "program", "curriculum", "specialization", "degree", "engineering",
     "btech", "mtech", "phd", "branch", "department", "faculty"}

research_extract_keywords ==
    {"research", "innovation", "publication", "patent", "laboratory", "project",
     "faculty", "conference", "journal", "paper"}

RECURSIVE AdmissionInfoOf(_, _)
AdmissionInfoOf(tags, found) ==
    IF tags = <<>> THEN found
    ELSE LET text == Head(tags).text
         IN  AdmissionInfoOf(Tail(tags),
                 IF Head(tags).name \in BlockTags
                    /\ ~HasAny(text, admission_skip_words)
                    /\ HasAny(text, admission_extract_keywords)
                    /\ text.len > 20 /\ text.len < 300
                 THEN AppendNew(found, text) ELSE found)

RECURSIVE SpecificAdmissionOf(_, _)
SpecificAdmissionOf(tags, found) ==
    IF tags = <<>> THEN found
    ELSE LET text == Head(tags).text
         IN  SpecificAdmissionOf(Tail(tags),
                 IF Head(tags).name \in {"p", "div"}
                    /\ HasAny(text, specific_admission_keywords)
                    /\ text.len > 30 /\ text.len < 200
                 THEN AppendNew(found, text) ELSE found)

\* course_info and research_info: no duplicate test
KeywordInfoOf(tags, keywords) ==
    LET hits == SelectSeq(tags, LAMBDA t : t.name \in BlockTags /\ HasAny(t.text, keywords)
                                           /\ t.text.len > 10 /\ t.text.len < 500)
    IN  [i \in 1..Len(hits) |-> hits[i].text]

\* a content type the page does not have is the empty list
ExtractContent(url, tags) ==
    LET u == Lower(url)
        isAdm == Contains(u, <<"admissions">>)
        isCourse == ~isAdm /\ (Contains(u, <<"academics">>) \/ Contains(u, <<"courses">>)
                               \/ Contains(u, <<"engineering">>))
        isResearch == ~isAdm /\ ~isCourse /\ Contains(u, <<"research">>)
    IN  [ main_content |-> MainContentOf(tags),
          admission_info |-> IF isAdm THEN Take(AdmissionInfoOf(tags, <<>>), 25) ELSE <<>>,
          specific_admission |-> IF isAdm THEN Take(SpecificAdmissionOf(tags, <<>>), 10) ELSE <<>>,
          course_info |-> IF isCourse THEN Take(KeywordInfoOf(tags, course_extract_keywords), 20) ELSE <<>>,
          research_info |-> IF isResearch THEN Take(KeywordInfoOf(tags, research_extract_keywords), 20) ELSE <<>> ]

(***************************************************************************)
(* scrape_website: one activation record per call.                         *)
(*   pc = "entry"  before the two early returns                            *)
(*   pc = "fetch"  after visited_urls.add(url), before requests.get        *)
(*   pc = "links"  in the loop over discovered_links                       *)
(*   pc = "wait"   inside the recursive call of the loop body              *)
(*   pc = "done"   after the loop (or its break)                           *)
(***************************************************************************)
None == [status |-> "None"]

\* record.get("sub_pages", [])
SubPagesOf(record) == IF "sub_pages" \in DOMAIN record THEN record.sub_pages ELSE <<>>

Returned(value) == [kind |-> "return", value |-> value]

Raised == [kind |-> "raise", value |-> None]

\* if sub_page_data:
Truthy(value) == value # None

\* max_depth=999 of periodic_scraping's call and of the recursive call
NoDepthLimit == 999

NewFrame(url, depth) ==
    [ url |-> url, depth |-> depth, max_depth |-> NoDepthLimit, pc |-> "entry",
      scraped_info |-> None, discovered_links |-> <<>>, idx |-> 1,
      sub_pages_scraped |-> 0 ]

\* the budget test with > for >=
BudgetExhaustedLate(visited, budget) == Cardinality(visited) > budget

\* if len(visited_urls) >= max_pages: return None
BudgetExhausted(visited, budget) == Cardinality(visited) >= budget

\* if url in visited_urls: return None
AlreadyVisited(url, visited) == url \in visited

\* the URL is not added to the visited set
MarkVisitedForgets(visited, url) == visited

\* visited_urls.add(url)
MarkVisited(visited, url) == visited \cup {url}

\* if len(visited_urls) < max_pages: discover_links(url, soup, max_links=100)
LinksToFollow(url, soup, visited, budget) ==
    IF Cardinality(visited) < budget THEN discover_links(url, soup, MaxLinks) ELSE <<>>

\* if is_valid_srm_page(link_url) and link_url not in visited_urls:
ShouldFollow(link_url, visited) == is_valid_srm_page(link_url) /\ link_url \notin visited

SuccessRecord(url, depth, soup) ==
    [ url |-> url, depth |-> depth, status |-> "success",
      content |-> ExtractContent(url, soup.tags), sub_pages |-> <<>> ]

ErrorRecord(url, depth) == [ url |-> url, depth |-> depth, status |-> "error" ]

\* the handler raises again instead of returning the error record
OnExceptionReraise(frame) == Raised

\* the handler of scrape_website's try: the failure becomes the return value
OnException(frame) == Returned(ErrorRecord(frame.url, frame.depth))

\* the loop stays on the same link
NextLinkStuck(frame) == [frame EXCEPT !.pc = "links"]

\* the next iteration of `for link_url in discovered_links`
NextLink(frame) == [frame EXCEPT !.pc = "links", !.idx = @ + 1]

\* the loop body counting only the pages that were fetched
AfterCallErrorsUncounted(frame, outcome) ==
    IF outcome.kind = "raise" THEN NextLink(frame)
    ELSE IF Truthy(outcome.value)
    THEN LET f == [frame EXCEPT !.scraped_info.sub_pages = Append(@, outcome.value),
                                !.sub_pages_scraped =
                                    IF outcome.value.status = "error" THEN @ ELSE @ + 1]
         IN  IF f.sub_pages_scraped >= SubPageLimit
             THEN [f EXCEPT !.pc = "done"]
             ELSE NextLink(f)
    ELSE NextLink(frame)

\* the loop body without the break at 50 sub-pages
AfterCallNoBreak(frame, outcome) ==
    IF outcome.kind = "raise" THEN NextLink(frame)
    ELSE IF Truthy(outcome.value)
    THEN NextLink([frame EXCEPT !.scraped_info.sub_pages = Append(@, outcome.value),
                                !.sub_pages_scraped = @ + 1])
    ELSE NextLink(frame)

\* what the loop body does with the outcome of the recursive call
AfterCall(frame, outcome) ==
    IF outcome.kind = "raise" THEN NextLink(frame)              \* except: continue
    ELSE IF Truthy(outcome.value)
    THEN LET f == [frame EXCEPT !.scraped_info.sub_pages = Append(@, outcome.value),
                                !.sub_pages_scraped = @ + 1]
         IN  IF f.sub_pages_scraped >= SubPageLimit
             THEN [f EXCEPT !.pc = "done"]                       \* break
             ELSE NextLink(f)
    ELSE NextLink(frame)

Top == stack[Len(stack)]

\* the call on top of the stack ends with `outcome`; its caller goes on
StackAfter(outcome) ==
    IF Len(stack) = 1 THEN <<>>
    ELSE Append(SubSeq(stack, 1, Len(stack) - 2), AfterCall(stack[Len(stack) - 1], outcome))

ResultAfter(outcome) == IF Len(stack) = 1 THEN outcome ELSE result

SetTop(frame) == [stack EXCEPT ![Len(stack)] = frame]

FetchEntry(frame, ok) ==
    [ url |-> frame.url, depth |-> frame.depth, ok |-> ok,
      marked |-> frame.url \in visited_urls,
      others |-> Cardinality(visited_urls \ {frame.url}) ]

(***************************************************************************)
(* The web a crawl runs against: what a fetch may return.                  *)
(***************************************************************************)
SeedRoot == <<"https://", "www.", "srmist.edu.in", "/">>

SeedAdmissions == <<"https://", "www.", "srmist.edu.in", "/", "admissions", "/">>

Seeds == {SeedRoot, SeedAdmissions}

\* SCRAPING_SOURCES as the module defines it, for the sources of the model;
\* the page budgets are those of a run of the model
ConfiguredSources ==
    [ srm_website |-> [url |-> SeedRoot, enabled |-> TRUE, max_pages |-> MaxBudget],
      srm_admissions_direct |-> [url |-> SeedAdmissions, enabled |-> TRUE, max_pages |-> MaxBudget] ]

HrefA == <<"/", "a">>
HrefDotA == <<".", "/", "a">>
HrefBareA == <<"a">>
HrefPdf == <<"/", "b", ".pdf">>
HrefSeed == SeedRoot
HrefApply == <<"https://", "srmist.edu.in", "/", "admissions", "/", "apply">>
HrefUpper == <<"https://", "SRMIST.EDU.IN", "/", "c">>
HrefEvil == <<"https://", "evil.com", "/", "srmist.edu.in">>
HrefFacebook == <<"https://", "facebook.com", "/", "srm">>
HrefFacebookSrm == <<"https://", "facebook.com", "/", "srmist.edu.in">>
HrefAdmin == <<"/", "admin", "/", "x">>
HrefMail == <<"mailto:", "x@", "srmist.edu.in">>
HrefFragment == <<"#", "top">>
HrefNoScheme == <<"/", "srmist.edu.in", "/", "f">>

TextDeadline == Txt(1, <<"Deadline", "admission">>, 40)
TextHostel == Txt(2, <<"Hostel">>, 25)
TextShort == Txt(3, <<"welcome">>, 7)
TextCourse == Txt(4, <<"course", "faculty">>, 60)

Tag(name, text) == [name |-> name, text |-> text]

Soup(anchors, containers, scripts, metas, iframes, forms, tags) ==
    [ anchors |-> anchors, containers |-> containers, scripts |-> scripts,
      metas |-> metas, iframes |-> iframes, forms |-> forms, tags |-> tags ]

Pages ==
    { Soup(<<>>, <<>>, <<>>, <<>>, <<>>, <<>>, <<Tag("p", TextHostel)>>),
      Soup(<<HrefA, HrefPdf, HrefDotA>>, <<>>, <<>>, <<>>, <<>>, <<>>,
           <<Tag("h1", TextDeadline), Tag("p", TextShort)>>),
      Soup(<<HrefSeed, HrefBareA, <<>>, HrefApply>>, <<>>, <<>>, <<>>, <<>>, <<>>,
           <<Tag("p", TextDeadline), Tag("div", TextCourse)>>),
      Soup(<<HrefEvil, HrefFacebookSrm, HrefFacebook, HrefUpper>>, <<>>, <<>>, <<>>, <<>>, <<>>,
           <<>>),
      Soup(<<HrefAdmin, HrefMail, HrefFragment, HrefA>>, <<HrefDotA>>, <<HrefApply, HrefFacebook>>,
           <<HrefSeed>>, <<HrefNoScheme>>, <<HrefPdf>>, <<Tag("p", TextCourse)>>),
      Soup(<<HrefA>>, <<NoHref>>, <<>>, <<>>, <<>>, <<>>, <<>>) }

(***************************************************************************)
(* scrape_website: the steps of a crawl run.                               *)
(***************************************************************************)
\* the two early returns, then visited_urls.add(url)
Enter ==
    /\ stack # <<>> /\ Top.pc = "entry"
    /\ IF BudgetExhausted(visited_urls, max_pages) \/ AlreadyVisited(Top.url, visited_urls)
       THEN /\ stack' = StackAfter(Returned(None))
            /\ result' = ResultAfter(Returned(None))
            /\ refused' = refused \cup {Top.url}
            /\ UNCHANGED visited_urls
       ELSE /\ visited_urls' = MarkVisited(visited_urls, Top.url)
            /\ stack' = SetTop([Top EXCEPT !.pc = "fetch"])
            /\ UNCHANGED <<result, refused>>
    /\ UNCHANGED <<max_pages, fetchLog>>
    /\ UNCHANGED <<indexVars, faqVars, schedVars>>

\* requests.get answers: the page is parsed and its links are discovered
\* requests.get returns one of soups, which BeautifulSoup parses
Fetched(soups) ==
    /\ stack # <<>> /\ Top.pc = "fetch"
    /\ \E soup \in soups :
         stack' = SetTop([Top EXCEPT
                      !.pc = "links",
                      !.scraped_info = SuccessRecord(Top.url, Top.depth, soup),
                      !.discovered_links = LinksToFollow(Top.url, soup, visited_urls, max_pages)])
    /\ fetchLog' = Append(fetchLog, FetchEntry(Top, TRUE))
    /\ UNCHANGED <<max_pages, visited_urls, result, refused>>
    /\ UNCHANGED <<indexVars, faqVars, schedVars>>

FetchOk == Fetched(Pages)

\* requests.get or raise_for_status raises: except Exception
FetchFail ==
    /\ stack # <<>> /\ Top.pc = "fetch"
    /\ fetchLog' = Append(fetchLog, FetchEntry(Top, FALSE))
    /\ stack' = StackAfter(OnException(Top))
    /\ result' = ResultAfter(OnException(Top))
    /\ UNCHANGED <<max_pages, visited_urls, refused>>
    /\ UNCHANGED <<indexVars, faqVars, schedVars>>

\* the loop body calls scrape_website(link_url, ..., depth + 1, 999, max_pages, visited_urls)
FollowLink ==
    /\ stack # <<>> /\ Top.pc = "links" /\ Top.idx <= Len(Top.discovered_links)
    /\ ShouldFollow(Top.discovered_links[Top.idx], visited_urls)
    /\ stack' = Append(SetTop([Top EXCEPT !.pc = "wait"]),
                       NewFrame(Top.discovered_links[Top.idx], Top.depth + 1))
    /\ UNCHANGED <<max_pages, visited_urls, result, fetchLog, refused>>
    /\ UNCHANGED <<indexVars, faqVars, schedVars>>

\* else: Skipping invalid/already visited link
SkipLink ==
    /\ stack # <<>> /\ Top.pc = "links" /\ Top.idx <= Len(Top.discovered_links)
    /\ ~ShouldFollow(Top.discovered_links[Top.idx], visited_urls)
    /\ stack' = SetTop(NextLink(Top))
    /\ UNCHANGED <<max_pages, visited_urls, result, fetchLog, refused>>
    /\ UNCHANGED <<indexVars, faqVars, schedVars>>

\* return scraped_info
ReturnPage ==
    /\ stack # <<>>
    /\ Top.pc = "done" \/ (Top.pc = "links" /\ Top.idx > Len(Top.discovered_links))
    /\ stack' = StackAfter(Returned(Top.scraped_info))
    /\ result' = ResultAfter(Returned(Top.scraped_info))
    /\ UNCHANGED <<max_pages, visited_urls, fetchLog, refused>>
    /\ UNCHANGED <<indexVars, faqVars, schedVars>>

(***************************************************************************)
(* build_knowledge_database: the buckets, the categorizer and the walk.    *)
(***************************************************************************)
\* the keys of KNOWLEDGE_DATABASE, in the order of the dict
Categories == <<"admissions", "courses", "research", "events", "facilities", "general">>

\* KNOWLEDGE_DATABASE[category][:50]
BucketLimit == 50

\* for item in content[content_type][:10]
ContentTypeLimit == 10

\* if depth > 3: return
WalkDepthLimit == 3

\* the keys of scraped_data, in insertion order (the order of SCRAPING_SOURCES);
\* two of its nine sources
Sources == <<"srm_website", "srm_admissions_direct">>

admissions_keywords ==
    {"admission", "apply", "deadline", "form", "requirement", "enrollment",
     "entrance", "exam", "cutoff", "merit", "eligibility", "procedure", "process",
     "date", "last date", "application", "2025", "2024", "btech", "mtech", "phd",
     "engineering", "medical", "management"}

courses_keywords ==
    {"course", "program", "curriculum", "specialization", "degree", "engineering",
     "btech", "mtech", "phd", "branch", "department", "faculty", "syllabus", "semester"}

research_keywords ==
    {"research", "innovation", "publication", "patent", "laboratory", "project",
     "faculty", "conference", "journal", "paper", "experiment", "study"}

events_keywords ==
    {"event", "festival", "symposium", "workshop", "conference", "activity",
     "celebration", "competition", "seminar", "webinar"}

facilities_keywords ==
    {"facility", "infrastructure", "laboratory", "library", "hostel", "canteen",
     "gym", "sports", "auditorium", "classroom", "equipment"}

\* the chain with the courses test ahead of the admissions test
CategorizeCoursesFirst(text) ==
    IF HasAny(text, courses_keywords) THEN "courses"
    ELSE IF HasAny(text, admissions_keywords) THEN "admissions"
    ELSE IF HasAny(text, research_keywords) THEN "research"
    ELSE IF HasAny(text, events_keywords) THEN "events"
    ELSE IF HasAny(text, facilities_keywords) THEN "facilities"
    ELSE "general"

\* the if / elif chain of process_content_recursive
Categorize(text) ==
    IF HasAny(text, admissions_keywords) THEN "admissions"
    ELSE IF HasAny(text, courses_keywords) THEN "courses"
    ELSE IF HasAny(text, research_keywords) THEN "research"
    ELSE IF HasAny(text, events_keywords) THEN "events"
    ELSE IF HasAny(text, facilities_keywords) THEN "facilities"
    ELSE "general"

Op(bucket, text) == [bucket |-> bucket, text |-> text]

\* content_data.get("content", {})
ContentOf(record) ==
    IF "content" \in DOMAIN record THEN record.content
    ELSE [ main_content |-> <<>>, admission_info |-> <<>>, specific_admission |-> <<>>,
           course_info |-> <<>>, research_info |-> <<>> ]

\* Process main content: the texts of 20 to 500 characters, each with its category
MainContentOps(content) ==
    LET kept == SelectSeq(content.main_content, LAMBDA x : ~(x.len < 20 \/ x.len > 500))
    IN  [i \in 1..Len(kept) |-> Op(Categorize(kept[i]), kept[i])]

\* Process specific content types: the first 10 of each go to "admissions"
ContentTypeOps(items) ==
    LET kept == SelectSeq(Take(items, ContentTypeLimit), LAMBDA x : x.len > 20 /\ x.len < 500)
    IN  [i \in 1..Len(kept) |-> Op("admissions", kept[i])]

RECURSIVE PageOps(_, _)
RECURSIVE SubPageOps(_, _)
\* process_content_recursive(content_data, depth): the tests-and-appends it makes, in order
PageOps(record, depth) ==
    IF depth > WalkDepthLimit THEN <<>>
    ELSE MainContentOps(ContentOf(record))
         \o ContentTypeOps(ContentOf(record).admission_info)
         \o ContentTypeOps(ContentOf(record).course_info)
         \o ContentTypeOps(ContentOf(record).research_info)
         \o ContentTypeOps(ContentOf(record).specific_admission)
         \o SubPageOps(SubPagesOf(record), depth + 1)

\* for sub_page in content_data.get("sub_pages", [])
SubPageOps(pages, depth) ==
    IF pages = <<>> THEN <<>>
    ELSE PageOps(Head(pages), depth) \o SubPageOps(Tail(pages), depth)

\* if source_data.get("status") == "success": process_content_recursive(source_data)
SourceOps(record) == IF record.status = "success" THEN PageOps(record, 0) ELSE <<>>

\* the clear leaves every second entry in place
ClearBucketSkipping(bucket) == [i \in 1..(Len(bucket) \div 2) |-> bucket[2 * i]]

\* KNOWLEDGE_DATABASE[category] = []
ClearBucket(bucket) == <<>>

\* if text not in KNOWLEDGE_DATABASE[bucket]
NotInBucket(text, bucket) == text \notin Range(bucket)

\* KNOWLEDGE_DATABASE[category][:50]
Truncate(bucket) == Take(bucket, BucketLimit)

\* if not scraped_data
NoScrapedData(data) == \A i \in 1..Len(Sources) : data[Sources[i]] = None

(***************************************************************************)
(* FaqService (src/app/services/faq_service.py).  A row of the FAQ table   *)
(* carries, for the query of the run, what _calculate_match_score reads    *)
(* of it: the two SequenceMatcher ratios in percent, the number of         *)
(* keywords found in its question or tags, and whether a keyword contains  *)
(* its category.  Scores are in units of 1/10000.                          *)
(***************************************************************************)
\* threshold: float = 0.55
DefaultThreshold == 5500

NoMatch == [kind |-> "None"]

FaqMatch(entry, score) == [kind |-> "FaqMatch", entry |-> entry, score |-> score]

Min(a, b) == IF a <= b THEN a ELSE b

\* _calculate_match_score(query, keywords, entry), for a query of n keywords
calculate_match_score(n, entry) ==
    LET question_similarity == entry.question_ratio * 100
        answer_similarity == (entry.answer_ratio * 100) \div 2
        keyword_score == Min((entry.keyword_hits * 10000) \div n, 10000)
        combined_score == (question_similarity * 6) \div 10 + (answer_similarity * 2) \div 10
                          + (keyword_score * 2) \div 10
        category_bonus == IF entry.category_hit THEN 500 ELSE 0
    IN  Min(combined_score + category_bonus, 10000)

\* the fetch returns every row of the table
FetchAllEntries(table) == table

\* select(FaqEntry).where(FaqEntry.is_active.is_(True)), in the order of the table
FetchActiveEntries(table) == SelectSeq(table, LAMBDA e : e.is_active)

RECURSIVE BestOf(_, _, _)
\* the loop over entries: a later entry replaces the best one only with a higher score
BestOf(entries, n, best_match) ==
    IF entries = <<>> THEN best_match
    ELSE LET score == calculate_match_score(n, Head(entries))
         IN  BestOf(Tail(entries), n,
                    IF best_match = NoMatch \/ score > best_match.score
                    THEN FaqMatch(Head(entries), score) ELSE best_match)

\* lines 50 to 65 of find_best_match
BestMatch(entries, n, threshold) ==
    IF entries = <<>> THEN NoMatch
    ELSE LET best_match == BestOf(entries, n, NoMatch)
         IN  IF best_match # NoMatch /\ best_match.score >= threshold THEN best_match
             ELSE NoMatch

FaqRow(id, is_active, question_ratio, answer_ratio, keyword_hits, category_hit) ==
    [ id |-> id, is_active |-> is_active, question_ratio |-> question_ratio,
      answer_ratio |-> answer_ratio, keyword_hits |-> keyword_hits,
      category_hit |-> category_hit ]

\* the coroutines that call find_best_match concurrently
MaxCallers == 3

FaqCallers == 1..MaxCallers

\* no call of find_best_match is in progress; co and waiters are the positions
\* of concurrent callers and the waiters of self._lock, oldest first
FaqIdle ==
    [ pc |-> "idle", table |-> <<>>, blank |-> FALSE, keywords |-> 1,
      threshold |-> DefaultThreshold, locked |-> FALSE, entries |-> <<>>,
      outcome |-> [kind |-> "none"], calls |-> 0,
      co |-> [c \in FaqCallers |-> "idle"], waiters |-> <<>> ]

Threads == {"sched", "req"}

IdleBuild == [pc |-> "idle", ci |-> 1, si |-> 1, ops |-> <<>>, walked |-> <<>>, tmp |-> <<>>]

IdleQuery ==
    [ pc |-> "idle", msg |-> <<>>, cats |-> <<>>, ci |-> 1, relevant_info |-> <<>>,
      seen |-> <<>>, answer |-> [kind |-> "none", items |-> <<>>] ]

EmptyIndex == [c \in Range(Categories) |-> <<>>]

\* KNOWLEDGE_DATABASE as the module defines it (the first entries of its buckets)
TextSeedAdmission == Txt(101, <<"srmjee", "Deadline">>, 88)
TextSeedProcess == Txt(102, <<"admission">>, 95)
TextSeedCourse == Txt(103, <<"engineering">>, 94)
TextSeedHostel == Txt(104, <<"hostel">>, 79)

SeededIndex ==
    [ admissions |-> <<TextSeedAdmission, TextSeedProcess>>, courses |-> <<TextSeedCourse>>,
      research |-> <<>>, events |-> <<>>, facilities |-> <<TextSeedHostel>>,
      general |-> <<>> ]

\* what an observer has noted: the index at the start and, of the rebuild requests
\* it follows, the index before the latest one and the index after each one that
\* returned
NoHistory ==
    [ origin |-> EmptyIndex, completions |-> <<>>,
      before |-> [index |-> EmptyIndex, stamp |-> 0] ]

\* the module's globals when it has been loaded; time is counted from then
IndexIdle ==
    /\ KNOWLEDGE_DATABASE = SeededIndex
    /\ last_database_update = 0
    /\ scraped_data = [i \in Range(Sources) |-> None]
    /\ clock = 1
    /\ thr = [t \in Threads |-> [pc |-> "unstarted", si |-> 1, n |-> 0]]
    /\ bld = [t \in Threads |-> IdleBuild]
    /\ qry = IdleQuery
    /\ hist = [NoHistory EXCEPT !.origin = SeededIndex]
    /\ faq = FaqIdle
    /\ SCRAPING_SOURCES = ConfiguredSources /\ calls = <<>>

\* scrape_website(seed, name, depth=0, max_pages=N) with visited_urls=None
InitCrawl ==
    /\ max_pages \in 0..MaxBudget
    /\ visited_urls = {}
    /\ \E seed \in Seeds : stack = <<NewFrame(seed, 0)>>
    /\ result = [kind |-> "running", value |-> None]
    /\ fetchLog = <<>>
    /\ refused = {}
    /\ IndexIdle

NextCrawl == Enter \/ FetchOk \/ FetchFail \/ FollowLink \/ SkipLink \/ ReturnPage

SpecCrawl == InitCrawl /\ [][NextCrawl]_vars

\* every step of a run is taken: a fetch returns or fails
SpecCrawlLive == InitCrawl /\ [][NextCrawl]_vars /\ WF_vars(NextCrawl)

(***************************************************************************)
(* Claims about the crawl run.                                             *)
(***************************************************************************)
RECURSIVE RecordsOf(_)
\* a page record and every record below it
RecordsOf(record) ==
    {record} \cup UNION {RecordsOf(SubPagesOf(record)[i]) : i \in 1..Len(SubPagesOf(record))}

\* every page record the run has produced so far
RecordsSoFar ==
    RecordsOf(result.value) \cup UNION {RecordsOf(stack[k].scraped_info) : k \in 1..Len(stack)}

CrawlDone == stack = <<>>

FailedFetches == {i \in 1..Len(fetchLog) : ~fetchLog[i].ok}

\* C1: in every state of a crawl run with page budget max_pages the visited set
\* holds at most max_pages URLs, and every fetch was issued for a call that found
\* fewer than max_pages URLs in the visited set.
C1_PageBudget ==
    /\ Cardinality(visited_urls) <= max_pages
    /\ \A i \in 1..Len(fetchLog) : fetchLog[i].others < max_pages

\* the budget was used up, a later call was turned away, and some fetch had failed
C1_Witness ==
    /\ max_pages >= 2
    /\ Cardinality(visited_urls) = max_pages
    /\ Len(fetchLog) = max_pages
    /\ FailedFetches # {}
    /\ refused \ visited_urls # {}

\* C2: a crawl run returns: eventually no call of scrape_website is left.
C2_Terminates == <>CrawlDone

\* a run with a failed fetch, a fetched child and a call turned away has returned
C2_Witness ==
    /\ CrawlDone
    /\ max_pages = MaxBudget
    /\ Len(fetchLog) = max_pages
    /\ FailedFetches # {}
    /\ refused # {}
    /\ \E r \in RecordsOf(result.value) : r.status = "success" /\ r.depth = 1

\* C3: no URL is fetched twice in a run; a URL is in the visited set when its fetch
\* is issued and while its links are expanded.
C3_FetchedOnce ==
    /\ \A i, j \in 1..Len(fetchLog) : fetchLog[i].url = fetchLog[j].url => i = j
    /\ \A i \in 1..Len(fetchLog) : fetchLog[i].marked
    /\ \A k \in 1..Len(stack) : stack[k].pc # "entry" => stack[k].url \in visited_urls

\* the loop of a page stands at a valid link whose fetch failed earlier in the run
C3_Witness ==
    /\ stack # <<>> /\ Top.pc = "links" /\ Top.idx <= Len(Top.discovered_links)
    /\ is_valid_srm_page(Top.discovered_links[Top.idx])
    /\ \E i \in FailedFetches : fetchLog[i].url = Top.discovered_links[Top.idx]

\* the host of an absolute URL: what lies between the scheme and the first "/"
RECURSIVE UpToSlash(_)
UpToSlash(s) == IF s = <<>> \/ Head(s) = "/" THEN <<>> ELSE <<Head(s)>> \o UpToSlash(Tail(s))

HostOf(url) == IF StartsWithHttp(url) THEN Lower(UpToSlash(Tail(url))) ELSE <<>>

HostAllowed(url) ==
    HostOf(url) # <<>> /\ <<HostOf(url)[Len(HostOf(url))]>> \in srm_domains

\* C4: every URL fetched as a child has an allow-listed host and matches no deny
\* pattern, and a link on an allow-listed host that matches no deny pattern is kept.
C4_OnlyAllowedChildren ==
    /\ \A i \in 1..Len(fetchLog) :
          fetchLog[i].depth > 0 =>
              HostAllowed(fetchLog[i].url) /\ ~MatchesSkipPattern(fetchLog[i].url)
    /\ \A k \in 1..Len(stack) : \A n \in 1..Len(stack[k].discovered_links) :
          LET link == stack[k].discovered_links[n]
          IN  HostAllowed(link) /\ ~MatchesSkipPattern(link) => is_valid_srm_page(link)

\* C5: a failed fetch leaves an error record without children in the run's records,
\* nothing is raised to the caller, and the page whose link failed stays a success
\* record whose loop has moved past the failed link.
C5_FailureIsRecorded ==
    /\ \A i \in FailedFetches :
          ErrorRecord(fetchLog[i].url, fetchLog[i].depth) \in RecordsSoFar
    /\ \A r \in RecordsSoFar :
          /\ r.status = "error" => "sub_pages" \notin DOMAIN r
          /\ (\E n \in 1..Len(SubPagesOf(r)) : SubPagesOf(r)[n].status = "error")
                 => r.status = "success"
    /\ result.kind # "raise"
    /\ \A k \in 1..Len(stack) :
          stack[k].pc = "links" => stack[k].idx > Len(stack[k].scraped_info.sub_pages)
    /\ (CrawlDone /\ fetchLog # <<>> /\ fetchLog[1].ok) => result.value.status = "success"

\* the run returned a success record whose children are an error record and, after it,
\* a page fetched from the next link
C5_Witness ==
    /\ CrawlDone /\ result.kind = "return" /\ result.value.status = "success"
    /\ \E m, n \in 1..Len(SubPagesOf(result.value)) :
          /\ m < n
          /\ result.value.sub_pages[m].status = "error"
          /\ result.value.sub_pages[n].status = "success"

(***************************************************************************)
(* build_knowledge_database, statement by statement, run by thread t.      *)
(*   pc = "clear"   for category in KNOWLEDGE_DATABASE: ... = []           *)
(*   pc = "check"   if not scraped_data: return                            *)
(*   pc = "walk"    for source_id, source_data in scraped_data.items()     *)
(*   pc = "test"    if text not in KNOWLEDGE_DATABASE[bucket]              *)
(*   pc = "append"  KNOWLEDGE_DATABASE[bucket].append(text)                *)
(*   pc = "slice"   the right-hand side KNOWLEDGE_DATABASE[category][:50]  *)
(*   pc = "store"   KNOWLEDGE_DATABASE[category] = <the slice>             *)
(*   pc = "stamp"   last_database_update = datetime.now().isoformat()      *)
(*   pc = "return", "raised": the call has ended                           *)
(* bld[t].ops are the tests-and-appends left of the source being walked,   *)
(* bld[t].walked all those of the sources read so far.                     *)
(***************************************************************************)
BeginBuild(t) == [bld EXCEPT ![t] = [IdleBuild EXCEPT !.pc = "clear"]]

\* after an op: the next op of the page walk, or the next source
AfterOp(b) ==
    [b EXCEPT !.ops = Tail(@), !.pc = IF Tail(b.ops) = <<>> THEN "walk" ELSE "test"]

BuildClear(t) ==
    /\ bld[t].pc = "clear"
    /\ LET c == Categories[bld[t].ci]
       IN  KNOWLEDGE_DATABASE' = [KNOWLEDGE_DATABASE EXCEPT ![c] = ClearBucket(@)]
    /\ bld' = [bld EXCEPT ![t].ci = IF @ = Len(Categories) THEN 1 ELSE @ + 1,
                          ![t].pc = IF bld[t].ci = Len(Categories) THEN "check" ELSE "clear"]
    /\ UNCHANGED <<last_database_update, scraped_data, clock, thr, qry, hist>>
    /\ UNCHANGED <<crawlVars, faqVars, schedVars>>

BuildCheck(t) ==
    /\ bld[t].pc = "check"
    /\ IF NoScrapedData(scraped_data)
       THEN bld' = [bld EXCEPT ![t].pc = "return"]
       ELSE bld' = [bld EXCEPT ![t].pc = "walk", ![t].si = 1]
    /\ UNCHANGED <<KNOWLEDGE_DATABASE, last_database_update, scraped_data, clock, thr, qry, hist>>
    /\ UNCHANGED <<crawlVars, faqVars, schedVars>>

BuildNextSource(t) ==
    /\ bld[t].pc = "walk"
    /\ IF bld[t].si > Len(Sources)
       THEN bld' = [bld EXCEPT ![t].pc = "slice", ![t].ci = 1]
       ELSE LET data == scraped_data[Sources[bld[t].si]]
                ops == IF data = None THEN <<>> ELSE SourceOps(data)
            IN  bld' = [bld EXCEPT ![t].si = @ + 1, ![t].ops = ops, ![t].walked = @ \o ops,
                                   ![t].pc = IF ops = <<>> THEN "walk" ELSE "test"]
    /\ UNCHANGED <<KNOWLEDGE_DATABASE, last_database_update, scraped_data, clock, thr, qry, hist>>
    /\ UNCHANGED <<crawlVars, faqVars, schedVars>>

BuildTest(t) ==
    /\ bld[t].pc = "test"
    /\ LET op == Head(bld[t].ops)
       IN  IF NotInBucket(op.text, KNOWLEDGE_DATABASE[op.bucket])
           THEN bld' = [bld EXCEPT ![t].pc = "append"]
           ELSE bld' = [bld EXCEPT ![t] = AfterOp(@)]
    /\ UNCHANGED <<KNOWLEDGE_DATABASE, last_database_update, scraped_data, clock, thr, qry, hist>>
    /\ UNCHANGED <<crawlVars, faqVars, schedVars>>

BuildAppend(t) ==
    /\ bld[t].pc = "append"
    /\ LET op == Head(bld[t].ops)
       IN  KNOWLEDGE_DATABASE' = [KNOWLEDGE_DATABASE EXCEPT ![op.bucket] = Append(@, op.text)]
    /\ bld' = [bld EXCEPT ![t] = AfterOp(@)]
    /\ UNCHANGED <<last_database_update, scraped_data, clock, thr, qry, hist>>
    /\ UNCHANGED <<crawlVars, faqVars, schedVars>>

BuildSlice(t) ==
    /\ bld[t].pc = "slice"
    /\ bld' = [bld EXCEPT ![t].tmp = Truncate(KNOWLEDGE_DATABASE[Categories[bld[t].ci]]),
                          ![t].pc = "store"]
    /\ UNCHANGED <<KNOWLEDGE_DATABASE, last_database_update, scraped_data, clock, thr, qry, hist>>
    /\ UNCHANGED <<crawlVars, faqVars, schedVars>>

BuildStore(t) ==
    /\ bld[t].pc = "store"
    /\ KNOWLEDGE_DATABASE' = [KNOWLEDGE_DATABASE EXCEPT ![Categories[bld[t].ci]] = bld[t].tmp]
    /\ bld' = [bld EXCEPT ![t].tmp = <<>>,
                          ![t].ci = IF @ = Len(Categories) THEN 1 ELSE @ + 1,
                          ![t].pc = IF bld[t].ci = Len(Categories) THEN "stamp" ELSE "slice"]
    /\ UNCHANGED <<last_database_update, scraped_data, clock, thr, qry, hist>>
    /\ UNCHANGED <<crawlVars, faqVars, schedVars>>

BuildStamp(t) ==
    /\ bld[t].pc = "stamp"
    /\ last_database_update' = clock
    /\ clock' = clock + 1
    /\ bld' = [bld EXCEPT ![t].pc = "return"]
    /\ UNCHANGED <<KNOWLEDGE_DATABASE, scraped_data, thr, qry, hist>>
    /\ UNCHANGED <<crawlVars, faqVars, schedVars>>

\* the source loop raises at its head, before the first source, between two sources or
\* after the last; the callers catch it (lifespan, rebuild_knowledge_database,
\* periodic_scraping)
BuildRaise(t) ==
    /\ bld[t].pc = "walk"
    /\ bld' = [bld EXCEPT ![t].pc = "raised"]
    /\ UNCHANGED <<KNOWLEDGE_DATABASE, last_database_update, scraped_data, clock, thr, qry, hist>>
    /\ UNCHANGED <<crawlVars, faqVars, schedVars>>

BuildStep(t) ==
    \/ BuildClear(t) \/ BuildCheck(t) \/ BuildNextSource(t) \/ BuildTest(t)
    \/ BuildAppend(t) \/ BuildSlice(t) \/ BuildStore(t) \/ BuildStamp(t)

(***************************************************************************)
(* The request thread: POST /api/rebuild-database.                         *)
(***************************************************************************)
\* the requests the request thread serves next to the thread of periodic_scraping
MaxRequests == 1

\* the rebuild requests served one after the other when nothing else runs
MaxRebuilds == 2

\* the request arrives: build_knowledge_database() is called
RebuildCall ==
    /\ thr["req"].pc = "idle"
    /\ thr' = [thr EXCEPT !["req"].pc = "rebuild"]
    /\ bld' = BeginBuild("req")
    /\ UNCHANGED <<KNOWLEDGE_DATABASE, last_database_update, scraped_data, clock, qry>>
    /\ UNCHANGED <<crawlVars, faqVars, schedVars>>

\* return {"success": True, ...}
RebuildAnswer ==
    /\ thr["req"].pc = "rebuild" /\ bld["req"].pc = "return"
    /\ thr' = [thr EXCEPT !["req"].pc = "idle", !["req"].n = @ + 1]
    /\ bld' = [bld EXCEPT !["req"] = IdleBuild]
    /\ UNCHANGED <<KNOWLEDGE_DATABASE, last_database_update, scraped_data, clock, qry>>
    /\ UNCHANGED <<crawlVars, faqVars, schedVars>>

RebuildRequest == thr["req"].n < MaxRequests /\ RebuildCall /\ UNCHANGED hist

RebuildReturn == RebuildAnswer /\ UNCHANGED hist

\* the same two steps, followed by the observer
RebuildRequestNoted ==
    /\ thr["req"].n < MaxRebuilds
    /\ RebuildCall
    /\ hist' = [hist EXCEPT !.before = [index |-> KNOWLEDGE_DATABASE,
                                        stamp |-> last_database_update]]

RebuildReturnNoted ==
    /\ RebuildAnswer
    /\ hist' = [hist EXCEPT !.completions = Append(@, KNOWLEDGE_DATABASE)]

\* except Exception: return JSONResponse(status_code=500, ...)
RebuildFailed ==
    /\ thr["req"].pc = "rebuild" /\ bld["req"].pc = "raised"
    /\ thr' = [thr EXCEPT !["req"].pc = "idle", !["req"].n = @ + 1]
    /\ bld' = [bld EXCEPT !["req"] = IdleBuild]
    /\ UNCHANGED <<KNOWLEDGE_DATABASE, last_database_update, scraped_data, clock, qry, hist>>
    /\ UNCHANGED <<crawlVars, faqVars, schedVars>>

(***************************************************************************)
(* get_relevant_scraped_info(message), run by the request thread for a     *)
(* chat message.  A message is the sequence of its words.                  *)
(*   pc = "empty"     if not any(KNOWLEDGE_DATABASE.values())              *)
(*   pc = "building"  inside the build_knowledge_database() of that branch *)
(*   pc = "scan"      the loop over search_categories                      *)
(*   pc = "fallback"  the loop of "if not relevant_info"                   *)
(*   pc = "format"    the return statements                                *)
(*   pc = "done"      the answer has been returned                         *)
(* qry.seen lists the bucket slices the call has read, in order.           *)
(***************************************************************************)
query_admissions_keywords ==
    {"admission", "apply", "deadline", "form", "requirement", "enrollment", "entrance",
     "exam", "cutoff", "merit", "eligibility", "procedure", "process", "date",
     "last date", "application"}

query_courses_keywords ==
    {"course", "program", "engineering", "degree", "curriculum", "specialization",
     "btech", "mtech", "phd", "branch", "department", "faculty"}

query_research_keywords ==
    {"research", "innovation", "publication", "patent", "laboratory", "project",
     "faculty", "conference", "journal", "paper"}

query_events_keywords ==
    {"event", "festival", "symposium", "workshop", "conference", "activity",
     "celebration", "competition"}

query_facilities_keywords ==
    {"facility", "infrastructure", "laboratory", "library", "hostel", "canteen", "gym",
     "sports", "auditorium", "classroom"}

\* for item in KNOWLEDGE_DATABASE[category][:10]
ScanLimit == 10

\* relevant_info.extend(KNOWLEDGE_DATABASE[category][:3])
FallbackLimit == 3

\* if len(relevant_info) >= 6, and relevant_info[:6]
ResultLimit == 6

AsText(message) == Txt(0, message, 0)

\* search_categories, in the order the five tests append them
SearchCategories(message) ==
    LET hit(keywords, c) == IF HasAny(AsText(message), keywords) THEN <<c>> ELSE <<>>
        picked == hit(query_admissions_keywords, "admissions")
                  \o hit(query_courses_keywords, "courses")
                  \o hit(query_research_keywords, "research")
                  \o hit(query_events_keywords, "events")
                  \o hit(query_facilities_keywords, "facilities")
    IN  IF picked = <<>> THEN Categories ELSE picked

\* keyword in item.lower(), for a word of lower_message.split()
WordIn(word, item) ==
    \E i \in 1..Len(item.words) :
        LowerWord(word) = LowerWord(item.words[i])
        \/ LowerWord(word) \in KeywordsIn(LowerWord(item.words[i]))

MatchesMessage(item, message) == \E i \in 1..Len(message) : WordIn(message[i], item)

RECURSIVE ScanItems(_, _, _)
\* the inner loop over the items of one category, with its break
ScanItems(items, message, relevant_info) ==
    IF items = <<>> THEN relevant_info
    ELSE IF MatchesMessage(Head(items), message) /\ Head(items) \notin Range(relevant_info)
         THEN IF Len(relevant_info) + 1 >= ResultLimit
              THEN Append(relevant_info, Head(items))
              ELSE ScanItems(Tail(items), message, Append(relevant_info, Head(items)))
         ELSE ScanItems(Tail(items), message, relevant_info)

Read(category, limit) ==
    [category |-> category, items |-> Take(KNOWLEDGE_DATABASE[category], limit), limit |-> limit]

\* the three return statements
Answer(message, relevant_info) ==
    IF relevant_info # <<>> THEN [kind |-> "index", items |-> Take(relevant_info, ResultLimit)]
    ELSE IF HasAny(AsText(message), {"admission"}) THEN [kind |-> "admission_fallback", items |-> <<>>]
    ELSE [kind |-> "empty", items |-> <<>>]

\* the chat messages of a run
Messages == {<<"Deadline", "hostel">>, <<"hello">>}

\* the chat handler calls get_relevant_scraped_info(message)
ChatCall(messages) ==
    /\ thr["req"].pc = "idle"
    /\ \E message \in messages :
         qry' = [IdleQuery EXCEPT !.pc = "empty", !.msg = message]
    /\ thr' = [thr EXCEPT !["req"].pc = "chat"]
    /\ UNCHANGED <<KNOWLEDGE_DATABASE, last_database_update, scraped_data, clock, bld, hist>>
    /\ UNCHANGED <<crawlVars, faqVars, schedVars>>

ChatRequest == thr["req"].n < MaxRequests /\ ChatCall(Messages)

QueryCheckEmpty ==
    /\ thr["req"].pc = "chat" /\ qry.pc = "empty"
    /\ IF \A c \in Range(Categories) : KNOWLEDGE_DATABASE[c] = <<>>
       THEN /\ qry' = [qry EXCEPT !.pc = "building"]
            /\ bld' = BeginBuild("req")
       ELSE /\ qry' = [qry EXCEPT !.pc = "scan", !.cats = SearchCategories(qry.msg), !.ci = 1]
            /\ UNCHANGED bld
    /\ UNCHANGED <<KNOWLEDGE_DATABASE, last_database_update, scraped_data, clock, thr, hist>>
    /\ UNCHANGED <<crawlVars, faqVars, schedVars>>

QueryBuilt ==
    /\ thr["req"].pc = "chat" /\ qry.pc = "building" /\ bld["req"].pc = "return"
    /\ qry' = [qry EXCEPT !.pc = "scan", !.cats = SearchCategories(qry.msg), !.ci = 1]
    /\ bld' = [bld EXCEPT !["req"] = IdleBuild]
    /\ UNCHANGED <<KNOWLEDGE_DATABASE, last_database_update, scraped_data, clock, thr, hist>>
    /\ UNCHANGED <<crawlVars, faqVars, schedVars>>

\* the exception of the build leaves get_relevant_scraped_info and the chat handler
QueryFailed ==
    /\ thr["req"].pc = "chat" /\ qry.pc = "building" /\ bld["req"].pc = "raised"
    /\ qry' = [IdleQuery EXCEPT !.pc = "failed"]
    /\ bld' = [bld EXCEPT !["req"] = IdleBuild]
    /\ thr' = [thr EXCEPT !["req"].pc = "idle", !["req"].n = @ + 1]
    /\ UNCHANGED <<KNOWLEDGE_DATABASE, last_database_update, scraped_data, clock, hist>>
    /\ UNCHANGED <<crawlVars, faqVars, schedVars>>

\* one category of the first loop: its slice is taken, then its items are tested
QueryScan ==
    /\ thr["req"].pc = "chat" /\ qry.pc = "scan"
    /\ LET slice == Read(qry.cats[qry.ci], ScanLimit)
           found == ScanItems(slice.items, qry.msg, qry.relevant_info)
           last == Len(found) >= ResultLimit \/ qry.ci = Len(qry.cats)
       IN  qry' = [qry EXCEPT !.seen = Append(@, slice), !.relevant_info = found,
                              !.ci = IF last THEN 1 ELSE @ + 1,
                              !.pc = IF ~last THEN "scan"
                                     ELSE IF found = <<>> THEN "fallback" ELSE "format"]
    /\ UNCHANGED <<KNOWLEDGE_DATABASE, last_database_update, scraped_data, clock, thr, bld, hist>>
    /\ UNCHANGED <<crawlVars, faqVars, schedVars>>

\* one category of the second loop
QueryFallback ==
    /\ thr["req"].pc = "chat" /\ qry.pc = "fallback"
    /\ LET slice == Read(qry.cats[qry.ci], FallbackLimit)
           found == qry.relevant_info \o slice.items
           last == (slice.items # <<>> /\ Len(found) >= ResultLimit) \/ qry.ci = Len(qry.cats)
       IN  qry' = [qry EXCEPT !.seen = Append(@, slice), !.relevant_info = found,
                              !.ci = IF last THEN 1 ELSE @ + 1,
                              !.pc = IF last THEN "format" ELSE "fallback"]
    /\ UNCHANGED <<KNOWLEDGE_DATABASE, last_database_update, scraped_data, clock, thr, bld, hist>>
    /\ UNCHANGED <<crawlVars, faqVars, schedVars>>

QueryReturn ==
    /\ thr["req"].pc = "chat" /\ qry.pc = "format"
    /\ qry' = [IdleQuery EXCEPT !.pc = "done", !.answer = Answer(qry.msg, qry.relevant_info)]
    /\ thr' = [thr EXCEPT !["req"].pc = "idle", !["req"].n = @ + 1]
    /\ UNCHANGED <<KNOWLEDGE_DATABASE, last_database_update, scraped_data, clock, bld, hist>>
    /\ UNCHANGED <<crawlVars, faqVars, schedVars>>

(***************************************************************************)
(* The records a crawl stores in scraped_data, and the index before a      *)
(* rebuild.  The records are what scrape_website returns for these pages.  *)
(***************************************************************************)
TextApply == Txt(5, <<"admission", "information">>, 21)
TextFestival == Txt(6, <<"festival">>, 20)
TextSrmjee == Txt(7, <<"srmjee", "Deadline">>, 45)

TagsOnly(tags) == Soup(<<>>, <<>>, <<>>, <<>>, <<>>, <<>>, tags)

\* the same paragraph twice on one page, and once more on the page above it
ChildPage ==
    SuccessRecord(ResolveAnchor(SeedRoot, HrefA), 1,
        TagsOnly(<<Tag("p", TextDeadline), Tag("p", TextCourse), Tag("p", TextDeadline)>>))

RootPage ==
    [ SuccessRecord(SeedRoot, 0,
          TagsOnly(<<Tag("h1", TextDeadline), Tag("p", TextHostel), Tag("p", TextShort)>>))
      EXCEPT !.sub_pages = <<ErrorRecord(ResolveAnchor(SeedRoot, HrefUpper), 1), ChildPage>> ]

HostelPage == SuccessRecord(SeedRoot, 0, TagsOnly(<<Tag("p", TextHostel)>>))

AdmissionsPage ==
    SuccessRecord(SeedAdmissions, 0,
        TagsOnly(<<Tag("p", TextFestival), Tag("p", TextApply), Tag("div", TextSrmjee)>>))

\* more paragraphs of one category than a bucket keeps
FestivalTags(first, n) == [i \in 1..n |-> Tag("p", Txt(first + i, <<"festival">>, 30))]

FestivalPage ==
    [ SuccessRecord(SeedRoot, 0, TagsOnly(FestivalTags(200, MainContentLimit + 2)))
      EXCEPT !.sub_pages =
          <<SuccessRecord(ResolveAnchor(SeedRoot, HrefA), 1,
                          TagsOnly(FestivalTags(220, MainContentLimit)))>> ]

\* what scrape_website(source url, ...) returned for a source
CrawlResults(source) ==
    IF source = "srm_website" THEN {RootPage, ErrorRecord(SeedRoot, 0)}
    ELSE {AdmissionsPage}

LargeCrawlResults(source) ==
    IF source = "srm_website" THEN CrawlResults(source) \cup {HostelPage, FestivalPage}
    ELSE CrawlResults(source) \cup {ErrorRecord(SeedAdmissions, 0)}

Snapshots ==
    {d \in [Range(Sources) -> UNION {LargeCrawlResults(x) : x \in Range(Sources)}] :
        \A x \in Range(Sources) : d[x] \in LargeCrawlResults(x)}

PriorIndexes ==
    { SeededIndex, EmptyIndex,
      [EmptyIndex EXCEPT !["admissions"] = <<TextApply, TextDeadline>>,
                         !["general"] = <<TextHostel>>] }

\* the request thread serves rebuild requests one after the other; nothing else runs
InitRebuild ==
    /\ max_pages = 0 /\ visited_urls = {} /\ stack = <<>>
    /\ result = [kind |-> "running", value |-> None]
    /\ fetchLog = <<>> /\ refused = {}
    /\ KNOWLEDGE_DATABASE \in PriorIndexes
    /\ last_database_update = 0
    /\ scraped_data \in Snapshots
    /\ clock = 1
    /\ thr = [t \in Threads |-> [pc |-> IF t = "req" THEN "idle" ELSE "unstarted", si |-> 1, n |-> 0]]
    /\ bld = [t \in Threads |-> IdleBuild]
    /\ qry = IdleQuery
    /\ hist = [NoHistory EXCEPT !.origin = KNOWLEDGE_DATABASE]
    /\ faq = FaqIdle
    /\ SCRAPING_SOURCES = ConfiguredSources /\ calls = <<>>

NextRebuild ==
    \/ RebuildRequestNoted \/ RebuildReturnNoted \/ RebuildFailed
    \/ BuildStep("req") \/ BuildRaise("req")

SpecRebuild == InitRebuild /\ [][NextRebuild]_vars

(***************************************************************************)
(* The application: lifespan's startup in the request thread, then the     *)
(* request thread serving rebuild requests and chat messages while the     *)
(* thread of periodic_scraping crawls and rebuilds.  The threads take      *)
(* turns between any two statements.                                       *)
(*   thr[t].pc of "req":   "startup", "startup_build", "idle", "rebuild",  *)
(*                         "chat"                                          *)
(*   thr[t].pc of "sched": "unstarted", "sleep", "crawl", "build",         *)
(*                         "backoff"                                       *)
(***************************************************************************)
\* the rounds of periodic_scraping in one run of the model
MaxCycles == 1

\* an error record does not replace the stored snapshot
StoreSuccessOnly(data, source, value) ==
    IF Truthy(value) /\ value.status = "success" THEN [data EXCEPT ![source] = value] ELSE data

\* if result: scraped_data[source_id] = result
Store(data, source, value) == IF Truthy(value) THEN [data EXCEPT ![source] = value] ELSE data

\* lifespan: one source of the loop over SCRAPING_SOURCES, then the build
StartupCrawl ==
    /\ thr["req"].pc = "startup"
    /\ \E value \in CrawlResults(Sources[thr["req"].si]) :
         scraped_data' = Store(scraped_data, Sources[thr["req"].si], value)
    /\ IF thr["req"].si = Len(Sources)
       THEN /\ thr' = [thr EXCEPT !["req"].pc = "startup_build", !["req"].si = 1]
            /\ bld' = BeginBuild("req")
       ELSE /\ thr' = [thr EXCEPT !["req"].si = @ + 1]
            /\ UNCHANGED bld
    /\ UNCHANGED <<KNOWLEDGE_DATABASE, last_database_update, clock, qry, hist>>
    /\ UNCHANGED <<crawlVars, faqVars, schedVars>>

\* scraping_thread.start(), then the application serves requests
StartupDone ==
    /\ thr["req"].pc = "startup_build" /\ bld["req"].pc = "return"
    /\ thr' = [thr EXCEPT !["req"].pc = "idle", !["sched"].pc = "sleep"]
    /\ bld' = [bld EXCEPT !["req"] = IdleBuild]
    /\ UNCHANGED <<KNOWLEDGE_DATABASE, last_database_update, scraped_data, clock, qry, hist>>
    /\ UNCHANGED <<crawlVars, faqVars, schedVars>>

\* except Exception of lifespan: the thread is not started
StartupFailed ==
    /\ thr["req"].pc = "startup_build" /\ bld["req"].pc = "raised"
    /\ thr' = [thr EXCEPT !["req"].pc = "idle"]
    /\ bld' = [bld EXCEPT !["req"] = IdleBuild]
    /\ UNCHANGED <<KNOWLEDGE_DATABASE, last_database_update, scraped_data, clock, qry, hist>>
    /\ UNCHANGED <<crawlVars, faqVars, schedVars>>

\* time.sleep(900) returns
SchedWakes ==
    /\ thr["sched"].pc = "sleep"
    /\ thr' = [thr EXCEPT !["sched"].pc = "crawl", !["sched"].si = 1]
    /\ UNCHANGED <<KNOWLEDGE_DATABASE, last_database_update, scraped_data, clock, bld, qry, hist>>
    /\ UNCHANGED <<crawlVars, faqVars, schedVars>>

SchedWake == thr["sched"].n < MaxCycles /\ SchedWakes

\* one source of the loop over SCRAPING_SOURCES, then build_knowledge_database()
SchedCrawl ==
    /\ thr["sched"].pc = "crawl"
    /\ \E value \in CrawlResults(Sources[thr["sched"].si]) :
         scraped_data' = Store(scraped_data, Sources[thr["sched"].si], value)
    /\ IF thr["sched"].si = Len(Sources)
       THEN /\ thr' = [thr EXCEPT !["sched"].pc = "build", !["sched"].si = 1]
            /\ bld' = BeginBuild("sched")
       ELSE /\ thr' = [thr EXCEPT !["sched"].si = @ + 1]
            /\ UNCHANGED bld
    /\ UNCHANGED <<KNOWLEDGE_DATABASE, last_database_update, clock, qry, hist>>
    /\ UNCHANGED <<crawlVars, faqVars, schedVars>>

\* the round is over: back to time.sleep(900)
SchedBuilt ==
    /\ thr["sched"].pc = "build" /\ bld["sched"].pc = "return"
    /\ thr' = [thr EXCEPT !["sched"].pc = "sleep", !["sched"].n = @ + 1]
    /\ bld' = [bld EXCEPT !["sched"] = IdleBuild]
    /\ UNCHANGED <<KNOWLEDGE_DATABASE, last_database_update, scraped_data, clock, qry, hist>>
    /\ UNCHANGED <<crawlVars, faqVars, schedVars>>

\* except Exception: the round is abandoned, time.sleep(300)
SchedFailed ==
    /\ thr["sched"].pc = "build" /\ bld["sched"].pc = "raised"
    /\ thr' = [thr EXCEPT !["sched"].pc = "backoff", !["sched"].n = @ + 1]
    /\ bld' = [bld EXCEPT !["sched"] = IdleBuild]
    /\ UNCHANGED <<KNOWLEDGE_DATABASE, last_database_update, scraped_data, clock, qry, hist>>
    /\ UNCHANGED <<crawlVars, faqVars, schedVars>>

\* the thread leaves the loop after the handler
SchedRetryExits ==
    /\ thr["sched"].pc = "backoff"
    /\ thr' = [thr EXCEPT !["sched"].pc = "exited"]
    /\ UNCHANGED <<KNOWLEDGE_DATABASE, last_database_update, scraped_data, clock, bld, qry, hist>>
    /\ UNCHANGED <<crawlVars, faqVars, schedVars>>

\* time.sleep(300) returns: the next turn of while True
SchedRetry ==
    /\ thr["sched"].pc = "backoff"
    /\ thr' = [thr EXCEPT !["sched"].pc = "sleep"]
    /\ UNCHANGED <<KNOWLEDGE_DATABASE, last_database_update, scraped_data, clock, bld, qry, hist>>
    /\ UNCHANGED <<crawlVars, faqVars, schedVars>>

InitConc ==
    /\ max_pages = 0 /\ visited_urls = {} /\ stack = <<>>
    /\ result = [kind |-> "running", value |-> None]
    /\ fetchLog = <<>> /\ refused = {}
    /\ KNOWLEDGE_DATABASE = SeededIndex
    /\ last_database_update = 0
    /\ scraped_data = [i \in Range(Sources) |-> None]
    /\ clock = 1
    /\ thr = [t \in Threads |-> [pc |-> IF t = "req" THEN "startup" ELSE "unstarted", si |-> 1, n |-> 0]]
    /\ bld = [t \in Threads |-> IdleBuild]
    /\ qry = IdleQuery
    /\ hist = [NoHistory EXCEPT !.origin = SeededIndex]
    /\ faq = FaqIdle
    /\ SCRAPING_SOURCES = ConfiguredSources /\ calls = <<>>

NextConc ==
    \/ StartupCrawl \/ StartupDone \/ StartupFailed
    \/ RebuildRequest \/ RebuildReturn \/ RebuildFailed
    \/ ChatRequest \/ QueryCheckEmpty \/ QueryBuilt \/ QueryFailed
    \/ QueryScan \/ QueryFallback \/ QueryReturn
    \/ SchedWake \/ SchedCrawl \/ SchedBuilt \/ SchedFailed \/ SchedRetry
    \/ \E t \in Threads : BuildStep(t) \/ BuildRaise(t)

SpecConc == InitConc /\ [][NextConc]_vars

(***************************************************************************)
(* The index: what the rebuilds and the queries are claimed to guarantee.  *)
(***************************************************************************)
\* the texts a walk inserts into a bucket when nothing interrupts it: those of its
\* tests-and-appends for that bucket, each at its first occurrence
Inserted(walked, c) ==
    LET ops == SelectSeq(walked, LAMBDA op : op.bucket = c)
        numbered == [i \in 1..Len(ops) |-> [i |-> i, text |-> ops[i].text]]
        firsts == SelectSeq(numbered, LAMBDA e : \A j \in 1..(e.i - 1) : ops[j].text # e.text)
    IN  [k \in 1..Len(firsts) |-> firsts[k].text]

RECURSIVE SnapshotOps(_, _)
SnapshotOps(data, i) ==
    IF i > Len(Sources) THEN <<>>
    ELSE (IF data[Sources[i]] = None THEN <<>> ELSE SourceOps(data[Sources[i]]))
         \o SnapshotOps(data, i + 1)

\* the index build_knowledge_database leaves when it runs alone and to its end
BuiltIndex(data) ==
    [c \in Range(Categories) |-> Truncate(Inserted(SnapshotOps(data, 1), c))]

\* the indexes that are complete: the one of the module, and the one of each snapshot
\* the crawls can store
CompleteIndexes ==
    {SeededIndex} \cup
    {BuiltIndex(d) : d \in {d \in [Range(Sources) -> UNION {CrawlResults(x) : x \in Range(Sources)}] :
                               \A x \in Range(Sources) : d[x] \in CrawlResults(x)}}

\* the slices a query has read are those of one index
ReadsAgree(seen, index) ==
    \A k \in 1..Len(seen) : seen[k].items = Take(index[seen[k].category], seen[k].limit)

NoDuplicates(bucket) ==
    \A i, j \in 1..Len(bucket) : bucket[i] = bucket[j] => i = j

\* the step on which a build_knowledge_database call completes
Completes(t) == bld[t].pc = "stamp" /\ bld'[t].pc = "return"

\* C6: a query that runs while the thread of periodic_scraping rebuilds the index, and
\* that no other request preceded, has read, when it has made all its reads, the
\* slices of one complete index (the index before the rebuild or the index after it),
\* never a cleared or partly filled bucket
C6_QuerySeesOldOrNew ==
    (qry.pc = "format" /\ thr["sched"].pc = "build" /\ thr["req"].n = 0)
        => \E index \in CompleteIndexes : ReadsAgree(qry.seen, index)

\* C7: when build_knowledge_database has raised, the buckets and the last-built
\* timestamp are those from before the rebuild request
C7_RaiseKeepsOldIndex ==
    bld["req"].pc = "raised"
        => /\ KNOWLEDGE_DATABASE = hist.before.index
           /\ last_database_update = hist.before.stamp

\* C8: rebuild requests served one after the other over the same scraped_data leave
\* the same buckets, entry for entry, whatever the index was before the first
C8_RebuildIdempotent ==
    \A i, j \in 1..Len(hist.completions) : hist.completions[i] = hist.completions[j]

C8_Witness ==
    /\ Len(hist.completions) = 2
    /\ hist.origin = SeededIndex
    /\ hist.origin # KNOWLEDGE_DATABASE
    /\ scraped_data["srm_website"] = FestivalPage
    /\ Len(KNOWLEDGE_DATABASE["events"]) = BucketLimit
    /\ Len(KNOWLEDGE_DATABASE["admissions"]) > 1

\* C9: on every step that completes a rebuild each bucket holds at most 50 entries,
\* and they are the first 50 texts that rebuild's walk inserted into the bucket, in
\* the order of the walk
C9_BucketsKeepFirstFifty ==
    [][\A t \in Threads :
          Completes(t)
          => \A c \in Range(Categories) :
                 /\ Len(KNOWLEDGE_DATABASE'[c]) <= BucketLimit
                 /\ KNOWLEDGE_DATABASE'[c] = Take(Inserted(bld[t].walked, c), BucketLimit)]_vars

\* C10: on every step that completes a rebuild no bucket holds the same text twice
C10_NoDuplicateInBucket ==
    [][(\E t \in Threads : Completes(t))
          => \A c \in Range(Categories) : NoDuplicates(KNOWLEDGE_DATABASE'[c])]_vars

(***************************************************************************)
(* The categorizer.  A rebuild of one page of the main site whose          *)
(* paragraphs are drawn from FragmentTexts: every one- and two-word text   *)
(* over FragmentWords, in both orders.                                     *)
(***************************************************************************)
FragmentWords ==
    {"Deadline", "Application", "engineering", "faculty", "conference", "laboratory",
     "Hostel", "festival", "course", "research", "welcome"}

FragmentTexts ==
    {Txt(300, <<w>>, 40) : w \in FragmentWords}
    \cup {Txt(301, <<v, w>>, 40) : v, w \in FragmentWords}

\* the paragraph that follows the one under study on the page
NeighbourTexts == {Txt(302, <<"welcome">>, 40), Txt(303, <<"faculty">>, 40)}

FragmentPages ==
    {SuccessRecord(SeedRoot, 0, TagsOnly(<<Tag("p", t), Tag("h2", u)>>)) :
        t \in FragmentTexts, u \in NeighbourTexts}

InitCategorize ==
    /\ max_pages = 0 /\ visited_urls = {} /\ stack = <<>>
    /\ result = [kind |-> "running", value |-> None]
    /\ fetchLog = <<>> /\ refused = {}
    /\ KNOWLEDGE_DATABASE = SeededIndex
    /\ last_database_update = 0
    /\ scraped_data \in {[x \in Range(Sources) |-> IF x = "srm_website" THEN page ELSE None] :
                             page \in FragmentPages}
    /\ clock = 1
    /\ thr = [t \in Threads |-> [pc |-> IF t = "req" THEN "idle" ELSE "unstarted", si |-> 1, n |-> 0]]
    /\ bld = [t \in Threads |-> IdleBuild]
    /\ qry = IdleQuery
    /\ hist = [NoHistory EXCEPT !.origin = KNOWLEDGE_DATABASE]
    /\ faq = FaqIdle
    /\ SCRAPING_SOURCES = ConfiguredSources /\ calls = <<>>

SpecCategorize == InitCategorize /\ [][NextRebuild]_vars

\* the keyword lists in the order of the tests
KeywordLists ==
    <<admissions_keywords, courses_keywords, research_keywords, events_keywords,
      facilities_keywords>>

\* the lists with a keyword that the lower-cased text contains
ListsHit(text) ==
    {i \in 1..Len(KeywordLists) :
        \E k \in KeywordLists[i] : \E j \in 1..Len(text.words) :
            k \in KeywordsIn(LowerWord(text.words[j]))}

FirstListHit(text) ==
    IF ListsHit(text) = {} THEN "general"
    ELSE Categories[CHOOSE i \in ListsHit(text) : \A j \in ListsHit(text) : i <= j]

MentionsWord(text, words) == \E j \in 1..Len(text.words) : text.words[j] \in words

\* C11: every main-content fragment the rebuild walks is given the category of
\* the first keyword list, in the order admissions, courses, research, events,
\* facilities, that its lower-cased text hits, and general when it hits none;
\* a text with 'deadline' or 'application' in any case is given admissions
C11_FirstHitWins ==
    \A i \in 1..Len(bld["req"].walked) :
        LET op == bld["req"].walked[i]
        IN  /\ op.bucket = FirstListHit(op.text)
            /\ MentionsWord(op.text, {"Deadline", "Application"}) => op.bucket = "admissions"

\* a finished rebuild that walked a text hitting the courses and the research list
\* and a text hitting none
C11_Witness ==
    /\ bld["req"].pc = "return"
    /\ \E i, j \in 1..Len(bld["req"].walked) :
         /\ bld["req"].walked[i].text.words = <<"conference", "faculty">>
         /\ bld["req"].walked[i].bucket = "courses"
         /\ bld["req"].walked[i].text \in Range(KNOWLEDGE_DATABASE["courses"])
         /\ bld["req"].walked[j].text.words = <<"welcome">>
         /\ bld["req"].walked[j].bucket = "general"

(***************************************************************************)
(* The request thread alone, serving rebuild requests and chat messages    *)
(* one after the other: the query against the indexes that rebuilds leave. *)
(***************************************************************************)
\* the requests of a run
MaxServed == 2

HrefAcademics == <<"/", "academics", "/">>

\* a page of the course catalogue: its paragraph is main content and course_info
AcademicsPage ==
    SuccessRecord(ResolveAnchor(SeedRoot, HrefAcademics), 1, TagsOnly(<<Tag("p", TextCourse)>>))

SitePage ==
    [ SuccessRecord(SeedRoot, 0, TagsOnly(<<Tag("h1", TextDeadline)>>))
      EXCEPT !.sub_pages = <<AcademicsPage>> ]

\* a page of twelve general paragraphs: the first and the last greet the visitor
NoticeTags(first, n) == [i \in 1..n |-> Tag("p", Txt(first + i, <<"students">>, 30))]

TextWelcomeFirst == Txt(400, <<"welcome">>, 30)

TextWelcomeLast == Txt(411, <<"welcome">>, 30)

NoticePage ==
    SuccessRecord(SeedRoot, 0,
        TagsOnly(<<Tag("p", TextWelcomeFirst)>> \o NoticeTags(400, ScanLimit)
                 \o <<Tag("p", TextWelcomeLast)>>))

ServedResults(source) ==
    IF source = "srm_website" THEN {None, RootPage, SitePage, FestivalPage, NoticePage}
    ELSE {None, AdmissionsPage}

ServedSnapshots ==
    {d \in [Range(Sources) -> UNION {ServedResults(x) : x \in Range(Sources)}] :
        \A x \in Range(Sources) : d[x] \in ServedResults(x)}

ServedMessages ==
    {<<"Deadline", "hostel">>, <<"hello">>, <<"festival">>, <<"admission">>,
     <<"Deadline", "engineering">>, <<"welcome">>}

ChatServed == thr["req"].n < MaxServed /\ ChatCall(ServedMessages)

InitServe ==
    /\ max_pages = 0 /\ visited_urls = {} /\ stack = <<>>
    /\ result = [kind |-> "running", value |-> None]
    /\ fetchLog = <<>> /\ refused = {}
    /\ KNOWLEDGE_DATABASE = SeededIndex
    /\ last_database_update = 0
    /\ scraped_data \in ServedSnapshots
    /\ clock = 1
    /\ thr = [t \in Threads |-> [pc |-> IF t = "req" THEN "idle" ELSE "unstarted", si |-> 1, n |-> 0]]
    /\ bld = [t \in Threads |-> IdleBuild]
    /\ qry = IdleQuery
    /\ hist = [NoHistory EXCEPT !.origin = KNOWLEDGE_DATABASE]
    /\ faq = FaqIdle
    /\ SCRAPING_SOURCES = ConfiguredSources /\ calls = <<>>

NextServe ==
    \/ RebuildRequestNoted \/ RebuildReturnNoted \/ RebuildFailed
    \/ ChatServed \/ QueryCheckEmpty \/ QueryBuilt \/ QueryFailed
    \/ QueryScan \/ QueryFallback \/ QueryReturn
    \/ BuildStep("req") \/ BuildRaise("req")

SpecServe == InitServe /\ [][NextServe]_vars

NoRepeat(items) == \A i, j \in 1..Len(items) : i # j => items[i] # items[j]

RECURSIVE Flatten(_)
Flatten(seqs) == IF seqs = <<>> THEN <<>> ELSE Head(seqs) \o Flatten(Tail(seqs))

\* the buckets of the candidate categories, one after the other
CandidateItems(message) ==
    Flatten([i \in 1..Len(SearchCategories(message)) |->
                KNOWLEDGE_DATABASE[SearchCategories(message)[i]]])

RECURSIVE InOrderOf(_, _)
\* items can be read off list from left to right
InOrderOf(items, list) ==
    IF items = <<>> THEN TRUE
    ELSE IF list = <<>> THEN FALSE
    ELSE IF Head(items) = Head(list) THEN InOrderOf(Tail(items), Tail(list))
    ELSE InOrderOf(items, Tail(list))

\* what the call is about to return
Returning == Answer(qry.msg, qry.relevant_info)

\* the two parts of C12 that hold of every answer
C12_AtMostSix == qry.pc = "format" => Len(Returning.items) <= ResultLimit

C12_InOrder == qry.pc = "format" => InOrderOf(Returning.items, CandidateItems(qry.msg))

\* C12: the fragments a query returns are at most 6, no fragment is returned
\* twice, and they are in the order of the candidate categories (admissions,
\* courses, research, events, facilities, general) and, within a category, in
\* the order of the bucket
C12_SixDistinctInOrder ==
    qry.pc = "format" =>
        /\ Len(Returning.items) <= ResultLimit
        /\ NoRepeat(Returning.items)
        /\ InOrderOf(Returning.items, CandidateItems(qry.msg))

\* no bucket of the candidate categories has an entry, to match or to fall back on
NothingQualifies ==
    \A i \in 1..Len(qry.cats) : KNOWLEDGE_DATABASE[qry.cats[i]] = <<>>

\* C13: whatever the query text, a query that finds the index empty, or finds no
\* entry in the candidate buckets, returns the empty result
C13_EmptyWhenNothingQualifies ==
    (qry.pc = "format" /\ NothingQualifies) => Returning.kind = "empty"

\* the part of C13 that holds: nothing is returned as coming from the index
C13_NoIndexItems ==
    (qry.pc = "format" /\ NothingQualifies) => Returning.items = <<>>

(***************************************************************************)
(* FaqService.find_best_match, one call after the other.                   *)
(*   pc = "lock"      at `async with self._lock`                           *)
(*   pc = "session"   at `async with get_async_session()`                  *)
(*   pc = "fetch"     at `await self._fetch_active_entries(session)`       *)
(*   pc = "score"     after the two `async with` blocks                    *)
(*   pc = "returned"  a value has been returned to the caller              *)
(*   pc = "raised"    an exception has left find_best_match                *)
(***************************************************************************)
\* the calls of a run
MaxFaqCalls == 2

\* the rows of a table
MaxRows == 2

\* rows whose question is unlike, like or equal to the query, with and without
\* an answer equal to the query, a keyword hit and a category hit
FaqRows(id) ==
    {FaqRow(id, a, q, IF h THEN 100 ELSE 0, IF h THEN 1 ELSE 0, h) :
        a \in BOOLEAN, q \in {0, 70, 100}, h \in BOOLEAN}

FaqTables ==
    UNION {{t \in [1..n -> UNION {FaqRows(i) : i \in 1..n}] : \A i \in 1..n : t[i].id = i} :
           n \in 0..MaxRows}

Thresholds == {DefaultThreshold, 3000}

\* query.strip() is empty, or the query has n keywords
FaqCall ==
    /\ faq.pc = "idle" /\ faq.calls < MaxFaqCalls
    /\ \E blank \in BOOLEAN, n \in {1, 2}, threshold \in Thresholds :
         faq' = [faq EXCEPT !.blank = blank, !.keywords = n, !.threshold = threshold,
                            !.entries = <<>>,
                            !.outcome = IF blank THEN NoMatch ELSE [kind |-> "none"],
                            !.pc = IF blank THEN "returned" ELSE "lock"]
    /\ UNCHANGED <<crawlVars, indexVars, schedVars>>

FaqAcquire ==
    /\ faq.pc = "lock" /\ ~faq.locked
    /\ faq' = [faq EXCEPT !.locked = TRUE, !.pc = "session"]
    /\ UNCHANGED <<crawlVars, indexVars, schedVars>>

FaqSessionOpens ==
    /\ faq.pc = "session"
    /\ faq' = [faq EXCEPT !.pc = "fetch"]
    /\ UNCHANGED <<crawlVars, indexVars, schedVars>>

\* get_async_session() raises: the exception leaves both `async with` blocks
FaqSessionFails ==
    /\ faq.pc = "session"
    /\ faq' = [faq EXCEPT !.locked = FALSE, !.pc = "raised", !.outcome = [kind |-> "raised"]]
    /\ UNCHANGED <<crawlVars, indexVars, schedVars>>

FaqFetched ==
    /\ faq.pc = "fetch"
    /\ faq' = [faq EXCEPT !.entries = FetchActiveEntries(faq.table), !.locked = FALSE,
                          !.pc = "score"]
    /\ UNCHANGED <<crawlVars, indexVars, schedVars>>

\* session.execute raises
FaqFetchFails ==
    /\ faq.pc = "fetch"
    /\ faq' = [faq EXCEPT !.locked = FALSE, !.pc = "raised", !.outcome = [kind |-> "raised"]]
    /\ UNCHANGED <<crawlVars, indexVars, schedVars>>

FaqScore ==
    /\ faq.pc = "score"
    /\ faq' = [faq EXCEPT !.outcome = BestMatch(faq.entries, faq.keywords, faq.threshold),
                          !.pc = "returned"]
    /\ UNCHANGED <<crawlVars, indexVars, schedVars>>

\* the caller has the value, or the exception
FaqDone ==
    /\ faq.pc \in {"returned", "raised"}
    /\ faq' = [faq EXCEPT !.pc = "idle", !.calls = @ + 1]
    /\ UNCHANGED <<crawlVars, indexVars, schedVars>>

InitFaq ==
    /\ max_pages = 0 /\ visited_urls = {} /\ stack = <<>>
    /\ result = [kind |-> "running", value |-> None]
    /\ fetchLog = <<>> /\ refused = {}
    /\ KNOWLEDGE_DATABASE = SeededIndex
    /\ last_database_update = 0
    /\ scraped_data = [i \in Range(Sources) |-> None]
    /\ clock = 1
    /\ thr = [t \in Threads |-> [pc |-> "unstarted", si |-> 1, n |-> 0]]
    /\ bld = [t \in Threads |-> IdleBuild]
    /\ qry = IdleQuery
    /\ hist = [NoHistory EXCEPT !.origin = SeededIndex]
    /\ \E table \in FaqTables : faq = [FaqIdle EXCEPT !.table = table]
    /\ SCRAPING_SOURCES = ConfiguredSources /\ calls = <<>>

NextFaq ==
    \/ FaqCall \/ FaqAcquire \/ FaqSessionOpens \/ FaqSessionFails
    \/ FaqFetched \/ FaqFetchFails \/ FaqScore \/ FaqDone

SpecFaq == InitFaq /\ [][NextFaq]_vars

ActiveRows == {faq.table[i] : i \in {j \in 1..Len(faq.table) : faq.table[j].is_active}}

ScoreOf(entry) == calculate_match_score(faq.keywords, entry)

\* C14: find_best_match returns a match only for an active entry whose score
\* is the highest score of the active entries and is at or above the
\* threshold; with no active entry, or with the highest score below the
\* threshold, it returns no match
C14_BestActiveAboveThreshold ==
    faq.pc = "returned" =>
        /\ faq.outcome # NoMatch =>
              /\ faq.outcome.entry \in ActiveRows
              /\ faq.outcome.score = ScoreOf(faq.outcome.entry)
              /\ \A e \in ActiveRows : ScoreOf(e) <= faq.outcome.score
              /\ faq.outcome.score >= faq.threshold
        /\ (\A e \in ActiveRows : ScoreOf(e) < faq.threshold) => faq.outcome = NoMatch

\* a match is returned at the default threshold although an inactive row
\* scores higher than every active one
C14_Witness ==
    /\ faq.pc = "returned" /\ faq.outcome # NoMatch /\ faq.threshold = DefaultThreshold
    /\ Cardinality(ActiveRows) = 1
    /\ \E e \in Range(faq.table) : ~e.is_active /\ ScoreOf(e) > faq.outcome.score

\* C15: when the FAQ store cannot be reached (the session cannot be opened or
\* the fetch of the active entries fails), find_best_match returns no match
\* and no exception reaches its caller
C15_StoreFailureIsNoMatch ==
    faq.pc # "raised"

(***************************************************************************)
(* The scheduler thread: lifespan's startup, then periodic_scraping with   *)
(* no request arriving.  The thread is scheduled and its sleeps return, so *)
(* its steps are weakly fair; an exception is not something that has to    *)
(* happen.                                                                 *)
(***************************************************************************)
\* the turns of `while True` of a run
MaxSchedCycles == 3

SchedWakeAgain == thr["sched"].n < MaxSchedCycles /\ SchedWakes

\* scrape_website raises out of the loop over SCRAPING_SOURCES: except Exception
SchedCrawlRaises ==
    /\ thr["sched"].pc = "crawl"
    /\ thr' = [thr EXCEPT !["sched"].pc = "backoff", !["sched"].si = 1, !["sched"].n = @ + 1]
    /\ UNCHANGED <<KNOWLEDGE_DATABASE, last_database_update, scraped_data, clock, bld, qry, hist>>
    /\ UNCHANGED <<crawlVars, faqVars, schedVars>>

SchedProgress ==
    \/ StartupCrawl \/ StartupDone \/ StartupFailed
    \/ SchedWakeAgain \/ SchedCrawl \/ SchedBuilt \/ SchedFailed \/ SchedRetry
    \/ \E t \in Threads : BuildStep(t)

NextSched == SchedProgress \/ SchedCrawlRaises \/ \E t \in Threads : BuildRaise(t)

SpecSched == InitConc /\ [][NextSched]_vars /\ WF_vars(SchedProgress)

\* the turn of the loop has raised: the exception is on its way to the handler,
\* or the handler is sleeping
CycleFailed ==
    \/ thr["sched"].pc = "backoff"
    \/ thr["sched"].pc = "build" /\ bld["sched"].pc = "raised"

\* the turns begun so far
CyclesBegun == thr["sched"].n + (IF thr["sched"].pc \in {"crawl", "build"} THEN 1 ELSE 0)

\* C16: after a turn of the scheduler loop in which a crawl or the rebuild has
\* raised, the loop begins another turn, however many turns have failed
\* before it
C16_FailedCycleIsFollowed ==
    \A k \in 1..(MaxSchedCycles - 1) :
        (CycleFailed /\ CyclesBegun = k) ~> (thr["sched"].pc = "crawl" /\ CyclesBegun = k + 1)

\* the third turn begins after two turns that both failed: no rebuild of the
\* scheduler has stamped the index
C16_Witness ==
    /\ thr["sched"].pc = "crawl" /\ CyclesBegun = MaxSchedCycles
    /\ last_database_update = 1 /\ clock = 2

(***************************************************************************)
(* The scheduler's turn with the crawl it runs, on a fixed site:           *)
(*   the seed of the main site links to page A, to a PDF and to A again    *)
(*   in another relative form; A has admissions content and no link;       *)
(*   under the admissions seed every page links to a page one level down.  *)
(* The application was started while the site was down, then the           *)
(* scheduler runs its turns, then a chat message arrives.                  *)
(*   thr["sched"].pc = "pick"      at `for source_id, source_info in ...`  *)
(*   thr["sched"].pc = "crawling"  inside scrape_website(...)              *)
(***************************************************************************)
\* the turns of a run
MaxSiteCycles == 1

\* max_pages of the main site and of the admissions site in these runs
SiteBudget == 10
ChainBudget == 6

HrefDown == <<"x">>

TextAdmissionA == Txt(8, <<"admission", "Deadline">>, 50)

SeedSoup ==
    Soup(<<HrefA, HrefPdf, HrefDotA>>, <<>>, <<>>, <<>>, <<>>, <<>>,
         <<Tag("h1", TextHostel), Tag("p", TextShort)>>)

PageA == ResolveAnchor(SeedRoot, HrefA)

PageB == ResolveAnchor(SeedRoot, HrefPdf)

PageASoup == TagsOnly(<<Tag("h2", TextAdmissionA), Tag("p", TextCourse)>>)

\* the level of a page under the admissions seed
ChainLevel(url) == (Len(url) - Len(RStripSlash(SeedAdmissions))) \div 2

ChainText(level) == Txt(500 + level, <<"admission">>, 40)

ChainSoup(level) ==
    Soup(<<HrefDown>>, <<>>, <<>>, <<>>, <<>>, <<>>, <<Tag("p", ChainText(level))>>)

UnderAdmissions(url) ==
    /\ Len(url) >= Len(RStripSlash(SeedAdmissions))
    /\ Take(url, Len(RStripSlash(SeedAdmissions))) = RStripSlash(SeedAdmissions)

\* what the site serves at url
SiteSoup(url) ==
    IF url = SeedRoot THEN SeedSoup
    ELSE IF url = PageA THEN PageASoup
    ELSE IF UnderAdmissions(url) THEN ChainSoup(ChainLevel(url))
    ELSE TagsOnly(<<>>)

SiteConfigs ==
    {[ srm_website |-> [url |-> SeedRoot, enabled |-> a, max_pages |-> SiteBudget],
       srm_admissions_direct |-> [url |-> SeedAdmissions, enabled |-> b, max_pages |-> ChainBudget] ] :
        a, b \in BOOLEAN}

SiteMessages == {<<"admission", "Deadline">>}

\* the visited set is carried over from the previous call
KeptVisitedSet(visited) == visited

\* if visited_urls is None: visited_urls = set()
FreshVisitedSet(visited) == {}

Called(op, source) == [op |-> op, source |-> source, visited |-> {}]

\* time.sleep(900) returns
CycleWake ==
    /\ thr["sched"].pc = "sleep" /\ thr["sched"].n < MaxSiteCycles
    /\ thr' = [thr EXCEPT !["sched"].pc = "pick", !["sched"].si = 1]
    /\ calls' = <<>> /\ fetchLog' = <<>> /\ refused' = {}
    /\ UNCHANGED <<max_pages, visited_urls, stack, result>>
    /\ UNCHANGED <<KNOWLEDGE_DATABASE, last_database_update, scraped_data, clock, bld, qry, hist>>
    /\ UNCHANGED <<faqVars, SCRAPING_SOURCES>>

\* if source_info["enabled"] is false: the next source
CycleSkip ==
    /\ thr["sched"].pc = "pick" /\ thr["sched"].si <= Len(Sources)
    /\ ~SCRAPING_SOURCES[Sources[thr["sched"].si]].enabled
    /\ thr' = [thr EXCEPT !["sched"].si = @ + 1]
    /\ UNCHANGED <<KNOWLEDGE_DATABASE, last_database_update, scraped_data, clock, bld, qry, hist>>
    /\ UNCHANGED <<crawlVars, faqVars, schedVars>>

\* result = scrape_website(url, name, depth=0, max_depth=999, max_pages=max_pages)
CycleCrawl ==
    /\ thr["sched"].pc = "pick" /\ thr["sched"].si <= Len(Sources)
    /\ LET source == Sources[thr["sched"].si]
           source_info == SCRAPING_SOURCES[source]
       IN  /\ source_info.enabled
           /\ max_pages' = source_info.max_pages
           /\ visited_urls' = FreshVisitedSet(visited_urls)
           /\ stack' = <<NewFrame(source_info.url, 0)>>
           /\ result' = [kind |-> "running", value |-> None]
           /\ calls' = Append(calls, [Called("crawl", source) EXCEPT !.visited = visited_urls'])
    /\ thr' = [thr EXCEPT !["sched"].pc = "crawling"]
    /\ UNCHANGED <<fetchLog, refused, SCRAPING_SOURCES>>
    /\ UNCHANGED <<KNOWLEDGE_DATABASE, last_database_update, scraped_data, clock, bld, qry, hist>>
    /\ UNCHANGED faqVars

\* if result: scraped_data[source_id] = result
CycleStore ==
    /\ thr["sched"].pc = "crawling" /\ stack = <<>> /\ result.kind = "return"
    /\ scraped_data' = Store(scraped_data, Sources[thr["sched"].si], result.value)
    /\ calls' = Append(calls, Called("returned", Sources[thr["sched"].si]))
    /\ thr' = [thr EXCEPT !["sched"].pc = "pick", !["sched"].si = @ + 1]
    /\ UNCHANGED <<KNOWLEDGE_DATABASE, last_database_update, clock, bld, qry, hist>>
    /\ UNCHANGED <<crawlVars, faqVars, SCRAPING_SOURCES>>

\* after the loop: build_knowledge_database()
CycleBuild ==
    /\ thr["sched"].pc = "pick" /\ thr["sched"].si > Len(Sources)
    /\ thr' = [thr EXCEPT !["sched"].pc = "build", !["sched"].si = 1]
    /\ bld' = BeginBuild("sched")
    /\ calls' = Append(calls, Called("build", "all"))
    /\ UNCHANGED <<KNOWLEDGE_DATABASE, last_database_update, scraped_data, clock, qry, hist>>
    /\ UNCHANGED <<crawlVars, faqVars, SCRAPING_SOURCES>>

FetchSite == Fetched({SiteSoup(Top.url)})

\* a chat message when the scheduler has run its turns
ChatSite ==
    /\ thr["sched"].pc = "sleep" /\ thr["sched"].n = MaxSiteCycles
    /\ thr["req"].n < MaxRequests
    /\ ChatCall(SiteMessages)

\* the site was down when the application started: lifespan stored the error
\* record of every enabled source, rebuilt the index and started the thread
InitSite ==
    /\ max_pages = 0 /\ visited_urls = {} /\ stack = <<>>
    /\ result = [kind |-> "running", value |-> None]
    /\ fetchLog = <<>> /\ refused = {}
    /\ SCRAPING_SOURCES \in SiteConfigs
    /\ scraped_data = [x \in Range(Sources) |->
                          IF SCRAPING_SOURCES[x].enabled
                          THEN ErrorRecord(SCRAPING_SOURCES[x].url, 0) ELSE None]
    /\ KNOWLEDGE_DATABASE = EmptyIndex
    /\ last_database_update = IF NoScrapedData(scraped_data) THEN 0 ELSE 1
    /\ clock = 2
    /\ thr = [t \in Threads |-> [pc |-> IF t = "req" THEN "idle" ELSE "sleep", si |-> 1, n |-> 0]]
    /\ bld = [t \in Threads |-> IdleBuild]
    /\ qry = IdleQuery
    /\ hist = NoHistory
    /\ faq = FaqIdle
    /\ calls = <<>>

NextSite ==
    \/ CycleWake \/ CycleSkip \/ CycleCrawl \/ CycleStore \/ CycleBuild
    \/ Enter \/ FetchSite \/ FetchFail \/ FollowLink \/ SkipLink \/ ReturnPage
    \/ SchedBuilt \/ SchedFailed \/ SchedRetry
    \/ ChatSite \/ QueryCheckEmpty \/ QueryBuilt \/ QueryFailed
    \/ QueryScan \/ QueryFallback \/ QueryReturn
    \/ \E t \in Threads : BuildStep(t) \/ BuildRaise(t)

SpecSite == InitSite /\ [][NextSite]_vars

\* the calls of a turn that crawls the enabled sources in the order of
\* SCRAPING_SOURCES, each with an empty visited set, and then rebuilds the index
ExpectedCalls ==
    Flatten([i \in 1..Len(Sources) |->
                IF SCRAPING_SOURCES[Sources[i]].enabled
                THEN <<Called("crawl", Sources[i]), Called("returned", Sources[i])>>
                ELSE <<>>])
    \o <<Called("build", "all")>>

\* the turn's rebuild has returned: the turn has met no exception
CycleCompleted == thr["sched"].pc = "build" /\ bld["sched"].pc = "return"

\* C17: in a turn of the scheduler that completes without an exception, every
\* enabled source has been crawled exactly once, starting from an empty visited
\* set, no disabled source has been crawled, and the rebuild has been called
\* exactly once, after the last crawl returned
C17_EachEnabledSourceOnceThenBuild == CycleCompleted => calls = ExpectedCalls

\* a completed turn with both sources enabled whose first crawl visited two pages
C17_Witness ==
    /\ CycleCompleted
    /\ \A x \in Range(Sources) : SCRAPING_SOURCES[x].enabled
    /\ \E i \in 1..Len(fetchLog) : fetchLog[i].url = PageA /\ fetchLog[i].ok
    /\ \E i \in 1..Len(fetchLog) : fetchLog[i].url = SeedAdmissions /\ fetchLog[i].ok

FetchesOf(url) == Cardinality({i \in 1..Len(fetchLog) : fetchLog[i].url = url})

FetchedOk(url) == \E i \in 1..Len(fetchLog) : fetchLog[i].url = url /\ fetchLog[i].ok

\* the main-content texts of a page that the rebuild puts in the admissions bucket
AdmissionsFragmentsOf(soup) ==
    {op.text : op \in {o \in Range(MainContentOps(ExtractContent(PageA, soup.tags))) :
                          o.bucket = "admissions"}}

\* the crawl of the main site has returned in this turn
MainSiteCrawled == Called("returned", "srm_website") \in Range(calls)

\* a rebuild has completed since the application started
RebuiltSinceStartup == last_database_update > 1

\* C18: the crawl of the seed that links to A, to the PDF B and to A again
\* fetches the seed and A once each and never B; when both were fetched and the
\* index has been rebuilt, A's admissions fragments are in the admissions
\* bucket and the query 'admission deadline' that follows returns them
C18_CrawlRebuildQuery ==
    /\ FetchesOf(PageB) = 0 /\ FetchesOf(SeedRoot) <= 1 /\ FetchesOf(PageA) <= 1
    /\ MainSiteCrawled => (FetchesOf(SeedRoot) = 1 /\ (FetchedOk(SeedRoot) => FetchesOf(PageA) = 1))
    /\ (qry.pc = "format" /\ FetchedOk(SeedRoot) /\ FetchedOk(PageA) /\ RebuiltSinceStartup) =>
          /\ AdmissionsFragmentsOf(PageASoup) \subseteq Range(KNOWLEDGE_DATABASE["admissions"])
          /\ AdmissionsFragmentsOf(PageASoup) \subseteq Range(Returning.items)

\* the query is about to return A's fragment after a turn that fetched the
\* seed and A and rebuilt the index, with the admissions site crawled as well
C18_Witness ==
    /\ qry.pc = "format" /\ qry.msg = <<"admission", "Deadline">>
    /\ max_pages = ChainBudget /\ SCRAPING_SOURCES["srm_website"].max_pages = SiteBudget
    /\ FetchedOk(SeedRoot) /\ FetchedOk(PageA) /\ FetchesOf(PageB) = 0
    /\ RebuiltSinceStartup
    /\ AdmissionsFragmentsOf(PageASoup) = {TextAdmissionA}
    /\ TextAdmissionA \in Range(Returning.items)
    /\ ChainText(0) \in Range(KNOWLEDGE_DATABASE["admissions"])

\* the page records of the snapshot that were fetched successfully
FetchedRecords ==
    UNION {{r \in RecordsOf(scraped_data[x]) : r.status = "success"} :
           x \in {y \in Range(Sources) : scraped_data[y] # None}}

\* a record's main-content fragments of 20 to 500 characters, with their category
QualifyingOps(record) == Range(MainContentOps(ContentOf(record)))

\* the rebuild of thread t has walked the snapshot and has not yet truncated a bucket
WalkDone(t) == bld[t].pc = "slice" /\ bld[t].ci = 1

\* the part of C19 that holds: the pages down to depth 3 are walked
C19_WalksDownToThree ==
    \A t \in Threads : WalkDone(t) =>
        \A r \in FetchedRecords : r.depth <= WalkDepthLimit =>
            \A op \in QualifyingOps(r) : op.text \in Range(KNOWLEDGE_DATABASE[op.bucket])

\* C19: when a rebuild has walked the snapshot, the qualifying fragments of
\* every successfully fetched page of the snapshot, at whatever depth the crawl
\* reached it, are in their bucket
C19_WalksEveryPage ==
    \A t \in Threads : WalkDone(t) =>
        \A r \in FetchedRecords :
            \A op \in QualifyingOps(r) : op.text \in Range(KNOWLEDGE_DATABASE[op.bucket])

BucketsOf(text) == {c \in Range(Categories) : text \in Range(KNOWLEDGE_DATABASE[c])}

IndexedTexts == UNION {Range(KNOWLEDGE_DATABASE[c]) : c \in Range(Categories)}

\* C20: when a rebuild has returned, every text of the index is in one bucket
\* only, the bucket of the first keyword list that the text hits
C20_OneCategoryPerFragment ==
    bld["req"].pc = "return" =>
        \A text \in IndexedTexts : BucketsOf(text) = {FirstListHit(text)}

\* the entries of the candidate buckets that share a token with the query,
\* among the first `limit` of each bucket
MatchingEntries(limit) ==
    UNION {{item \in Range(Take(KNOWLEDGE_DATABASE[qry.cats[i]], limit)) :
               MatchesMessage(item, qry.msg)} : i \in 1..Len(qry.cats)}

\* the first loop has ended with fewer than 6 matches
FewerThanSixMatches == qry.pc = "format" /\ Len(qry.relevant_info) < ResultLimit

\* the part of C21 that holds: the first 10 entries of every candidate bucket
\* are scored
C21_FirstTenScored ==
    (FewerThanSixMatches /\ MatchingEntries(ScanLimit) # {})
        => MatchingEntries(ScanLimit) \subseteq Range(Returning.items)

\* C21: when a query has found fewer than 6 matches, every entry of every
\* candidate bucket that shares a token with the query is in the result,
\* whatever its position in the bucket
C21_EveryEntryScored ==
    FewerThanSixMatches => MatchingEntries(BucketLimit) \subseteq Range(Returning.items)

\* the index is as it was before the step
IndexUnchanged ==
    /\ KNOWLEDGE_DATABASE' = KNOWLEDGE_DATABASE
    /\ last_database_update' = last_database_update

\* the part of C22 that holds: a query that finds an entry in some bucket
\* writes nothing
C22_PureReadOfFilledIndex ==
    [][(thr["req"].pc = "chat" /\ qry.pc # "building") => IndexUnchanged]_vars

\* C22: no step of get_relevant_scraped_info, whatever the message and
\* whatever the index, an empty index included, changes a bucket or the
\* last-built timestamp (the scheduler is asleep while the query runs)
C22_QueryIsPureRead ==
    [][thr["req"].pc = "chat" => IndexUnchanged]_vars

\* the threads that are inside build_knowledge_database
Building == {t \in Threads : bld[t].pc \notin {"idle", "return", "raised"}}

\* C23: at most one execution of build_knowledge_database is in progress at
\* any time, across the thread of periodic_scraping, the rebuild endpoint and
\* the query
C23_SingleWriter == Cardinality(Building) <= 1

(***************************************************************************)
(* POST /api/test-scraping: the request thread runs                        *)
(* scrape_website(".../admissions/", "Test Admissions", depth=0,           *)
(* max_depth=1, max_pages=5), on a site whose admissions pages link back   *)
(* to the admissions seed, one level down and to the application page.     *)
(*   thr["req"].pc = "test"  inside that call                              *)
(***************************************************************************)
\* the test requests of a run
MaxTests == 2

\* max_depth=1, max_pages=5
TestDepth == 1
TestPages == 5

TestSoup(url) ==
    IF UnderAdmissions(url)
    THEN Soup(<<SeedAdmissions, HrefDown, HrefApply>>, <<>>, <<>>, <<>>, <<>>, <<>>,
              <<Tag("p", ChainText(ChainLevel(url)))>>)
    ELSE SiteSoup(url)

TestScraping ==
    /\ thr["req"].pc = "idle" /\ thr["req"].n < MaxTests
    /\ max_pages' = TestPages
    /\ visited_urls' = FreshVisitedSet(visited_urls)
    /\ stack' = <<[NewFrame(SeedAdmissions, 0) EXCEPT !.max_depth = TestDepth]>>
    /\ result' = [kind |-> "running", value |-> None]
    /\ fetchLog' = <<>> /\ refused' = {}
    /\ thr' = [thr EXCEPT !["req"].pc = "test"]
    /\ UNCHANGED <<KNOWLEDGE_DATABASE, last_database_update, scraped_data, clock, bld, qry, hist>>
    /\ UNCHANGED <<faqVars, schedVars>>

\* return {"success": True, "result": test_result, ...}
TestAnswer ==
    /\ thr["req"].pc = "test" /\ stack = <<>> /\ result.kind = "return"
    /\ thr' = [thr EXCEPT !["req"].pc = "idle", !["req"].n = @ + 1]
    /\ UNCHANGED <<KNOWLEDGE_DATABASE, last_database_update, scraped_data, clock, bld, qry, hist>>
    /\ UNCHANGED <<crawlVars, faqVars, schedVars>>

FetchTest == Fetched({TestSoup(Top.url)})

\* the application has started (the site was down then) and serves requests
InitTest ==
    /\ max_pages = 0 /\ visited_urls = {} /\ stack = <<>>
    /\ result = [kind |-> "running", value |-> None]
    /\ fetchLog = <<>> /\ refused = {}
    /\ SCRAPING_SOURCES = ConfiguredSources
    /\ scraped_data = [x \in Range(Sources) |-> ErrorRecord(SCRAPING_SOURCES[x].url, 0)]
    /\ KNOWLEDGE_DATABASE = EmptyIndex
    /\ last_database_update = 1
    /\ clock = 2
    /\ thr = [t \in Threads |-> [pc |-> IF t = "req" THEN "idle" ELSE "sleep", si |-> 1, n |-> 0]]
    /\ bld = [t \in Threads |-> IdleBuild]
    /\ qry = IdleQuery
    /\ hist = NoHistory
    /\ faq = FaqIdle
    /\ calls = <<>>

NextTest ==
    \/ TestScraping \/ TestAnswer
    \/ Enter \/ FetchTest \/ FetchFail \/ FollowLink \/ SkipLink \/ ReturnPage

SpecTest == InitTest /\ [][NextTest]_vars

\* the depth budget the run in progress was started with
RunMaxDepth == stack[1].max_depth

\* C24: in a crawl run started with depth budget max_depth no page is fetched
\* at a depth greater than max_depth, whatever the page budget
C24_DepthBudgetIsHard ==
    stack # <<>> => \A i \in 1..Len(fetchLog) : fetchLog[i].depth <= RunMaxDepth

(***************************************************************************)
(* A crawl run on a hub: the seed links to HubLinks pages, and each of     *)
(* them links to the first of them.  At most MaxFailures fetches of a run  *)
(* fail.                                                                   *)
(***************************************************************************)
\* the links of the hub page, more than a page keeps as children
HubLinks == 54

\* a page budget that the hub and its pages do not use up
HubBudget == 60

\* the fetches that fail in a run
MaxFailures == 1

HubHref(i) == <<"/", "n", ToString(i)>>

HubChild(i) == ResolveAnchor(SeedRoot, HubHref(i))

\* the k-th sixth of the hub's links, relative or absolute
HubLinksPart(k, absolute) ==
    [j \in 1..(HubLinks \div 6) |->
        IF absolute THEN HubChild((k - 1) * (HubLinks \div 6) + j)
        ELSE HubHref((k - 1) * (HubLinks \div 6) + j)]

\* the hub carries its links as anchors, link containers, script literals, meta
\* contents, iframe sources and form actions, a sixth of them each
HubSoup(url) ==
    IF url = SeedRoot
    THEN Soup(HubLinksPart(1, FALSE), HubLinksPart(2, FALSE), HubLinksPart(3, TRUE),
              HubLinksPart(4, TRUE), HubLinksPart(5, TRUE), HubLinksPart(6, TRUE), <<>>)
    ELSE Soup(<<HubChild(1)>>, <<>>, <<>>, <<>>, <<>>, <<>>, <<>>)

FetchHub == Fetched({HubSoup(Top.url)})

FetchFailFew == Cardinality(FailedFetches) < MaxFailures /\ FetchFail

InitHub ==
    /\ max_pages \in {MaxBudget, HubBudget}
    /\ visited_urls = {}
    /\ stack = <<NewFrame(SeedRoot, 0)>>
    /\ result = [kind |-> "running", value |-> None]
    /\ fetchLog = <<>>
    /\ refused = {}
    /\ IndexIdle

NextHub == Enter \/ FetchHub \/ FetchFailFew \/ FollowLink \/ SkipLink \/ ReturnPage

SpecHub == InitHub /\ [][NextHub]_vars

\* the calls whose page has its 50 children
FullFrames == {k \in 1..Len(stack) : Len(SubPagesOf(stack[k].scraped_info)) >= SubPageLimit}

\* C25: every page record of a run has at most 50 children, and a page that
\* has 50 children has left its loop over the discovered links: no further
\* link of it is fetched, even when the page budget is not used up
C25_AtMostFiftyChildren ==
    /\ \A r \in RecordsSoFar : Len(SubPagesOf(r)) <= SubPageLimit
    /\ \A k \in FullFrames : stack[k].pc = "done" /\ k = Len(stack)
    /\ Cardinality({i \in 1..Len(fetchLog) : fetchLog[i].depth = 1}) <= SubPageLimit

\* the hub has left its loop with 50 children, links left over and budget left
C25_Witness ==
    /\ stack # <<>> /\ Top.pc = "done" /\ Top.url = SeedRoot
    /\ Len(Top.scraped_info.sub_pages) = SubPageLimit
    /\ Top.idx < Len(Top.discovered_links)
    /\ Cardinality(visited_urls) < max_pages

\* C30: a URL whose fetch failed is in the visited set for the rest of the
\* run and so counts toward the page budget, its error record is in the child
\* list of the page that linked to it and is counted in that page's number
\* of scraped sub-pages, and it is fetched once only
C30_FailedUrlStaysVisited ==
    /\ \A i \in FailedFetches :
          /\ fetchLog[i].url \in visited_urls
          /\ FetchesOf(fetchLog[i].url) = 1
          /\ fetchLog[i].depth > 0 =>
                \E r \in RecordsSoFar :
                    ErrorRecord(fetchLog[i].url, fetchLog[i].depth) \in Range(SubPagesOf(r))
    /\ Len(fetchLog) <= Cardinality(visited_urls)
    /\ Cardinality(visited_urls) <= max_pages
    /\ \A k \in 1..Len(stack) :
          stack[k].pc \in {"links", "wait", "done"} =>
              stack[k].sub_pages_scraped = Len(stack[k].scraped_info.sub_pages)

\* the run has returned the hub with 50 children, one of them the error record
\* of the first link, which every other child links to
C30_Witness ==
    /\ CrawlDone /\ result.kind = "return" /\ max_pages = HubBudget
    /\ Len(SubPagesOf(result.value)) = SubPageLimit
    /\ result.value.sub_pages[1] = ErrorRecord(HubChild(1), 1)
    /\ Len(fetchLog) = SubPageLimit + 1

(***************************************************************************)
(* find_best_match called by several coroutines of the event loop, with    *)
(* asyncio.Lock as CPython implements it: acquire() takes a free lock that *)
(* nobody waits for and otherwise queues; release() frees the lock and     *)
(* wakes the oldest waiter, which takes the lock when it runs again.       *)
(*   co[c] = "lock"     at `async with self._lock`                         *)
(*   co[c] = "waiting"  queued in acquire()                                *)
(*   co[c] = "woken"    queued, its future resolved by release()           *)
(*   co[c] = "session"  holding the lock, at get_async_session()           *)
(*   co[c] = "fetch"    holding the lock, at _fetch_active_entries         *)
(*   co[c] = "score", "raised"  after the two `async with` blocks          *)
(* The event loop runs every coroutine that can run, and the database      *)
(* answers or fails: the steps of a call are weakly fair.  A new call need *)
(* not arrive.                                                             *)
(***************************************************************************)
\* the lock is kept when the block is left by an exception
ReleasedOnReturnOnly(f, ok) ==
    IF ~ok THEN f
    ELSE [f EXCEPT !.locked = FALSE,
                   !.co = IF f.waiters = <<>> THEN @
                          ELSE [@ EXCEPT ![Head(f.waiters)] = "woken"]]

\* __aexit__ of `async with self._lock`, reached by return (ok) or by exception:
\* release() and _wake_up_first()
Released(f, ok) ==
    [f EXCEPT !.locked = FALSE,
              !.co = IF f.waiters = <<>> THEN @
                     ELSE [@ EXCEPT ![Head(f.waiters)] = "woken"]]

\* a non-blank query arrives
CoCall(c) ==
    /\ faq.co[c] = "idle"
    /\ faq' = [faq EXCEPT !.co[c] = "lock"]
    /\ UNCHANGED <<crawlVars, indexVars, schedVars>>

\* Lock.acquire(): the fast path, or the wait in the queue
CoAcquire(c) ==
    /\ faq.co[c] = "lock"
    /\ IF ~faq.locked /\ faq.waiters = <<>>
       THEN faq' = [faq EXCEPT !.locked = TRUE, !.co[c] = "session"]
       ELSE faq' = [faq EXCEPT !.waiters = Append(@, c), !.co[c] = "waiting"]
    /\ UNCHANGED <<crawlVars, indexVars, schedVars>>

\* the woken waiter runs: it leaves the queue and takes the lock
CoResume(c) ==
    /\ faq.co[c] = "woken"
    /\ faq' = [faq EXCEPT !.waiters = SelectSeq(@, LAMBDA w : w # c), !.locked = TRUE,
                          !.co[c] = "session"]
    /\ UNCHANGED <<crawlVars, indexVars, schedVars>>

CoSessionOpens(c) ==
    /\ faq.co[c] = "session"
    /\ faq' = [faq EXCEPT !.co[c] = "fetch"]
    /\ UNCHANGED <<crawlVars, indexVars, schedVars>>

\* the blocks are left: the fetch returns, or the session or the fetch raises
CoLeaves(c) ==
    /\ faq.co[c] \in {"session", "fetch"}
    /\ \E ok \in {b \in BOOLEAN : b => faq.co[c] = "fetch"} :
         faq' = [Released(faq, ok) EXCEPT !.co[c] = IF ok THEN "score" ELSE "raised"]
    /\ UNCHANGED <<crawlVars, indexVars, schedVars>>

\* the call returns its value, or its exception, to the caller
CoDone(c) ==
    /\ faq.co[c] \in {"score", "raised"}
    /\ faq' = [faq EXCEPT !.co[c] = "idle"]
    /\ UNCHANGED <<crawlVars, indexVars, schedVars>>

CoStep(c) == CoAcquire(c) \/ CoResume(c) \/ CoSessionOpens(c) \/ CoLeaves(c) \/ CoDone(c)

NextFaqLock == \E c \in FaqCallers : CoCall(c) \/ CoStep(c)

\* the module has been loaded and no call is in progress
InitFaqLock ==
    /\ max_pages = 0 /\ visited_urls = {} /\ stack = <<>>
    /\ result = [kind |-> "running", value |-> None]
    /\ fetchLog = <<>> /\ refused = {}
    /\ IndexIdle

SpecFaqLock ==
    InitFaqLock /\ [][NextFaqLock]_vars /\ \A c \in FaqCallers : WF_vars(CoStep(c))

\* the calls inside `async with self._lock`
LockHolders == {c \in FaqCallers : faq.co[c] \in {"session", "fetch"}}

\* the calls at or inside acquire()
LockSeekers == {c \in FaqCallers : faq.co[c] \in {"lock", "waiting", "woken"}}

\* C26: at most one call of find_best_match is inside the lock (opening the
\* session or fetching the active entries) at any time, the lock is held only
\* while such a call is inside it, whichever way the previous holder left,
\* and every call that asks for the lock eventually obtains it
C26_LockIsExclusiveAndFair ==
    /\ [](Cardinality(LockHolders) <= 1)
    /\ [](faq.locked <=> LockHolders # {})
    /\ \A c \in FaqCallers : (c \in LockSeekers) ~> (c \in LockHolders)

\* a call holds the lock after a previous holder left by an exception, and
\* every other call is queued behind it
C26_Witness ==
    /\ Cardinality(LockHolders) = 1
    /\ \E c \in FaqCallers : faq.co[c] = "raised"
    /\ Len(faq.waiters) = MaxCallers - 2

\* the part of C27 that holds: a failed turn is followed by the backoff sleep
C27_FailureBacksOff ==
    [][(thr["sched"].pc \in {"crawl", "build"} /\ thr'["sched"].pc \notin {"crawl", "build"}
        /\ (thr["sched"].pc = "crawl" \/ bld["sched"].pc = "raised"))
          => thr'["sched"].pc = "backoff"]_vars

\* C27: when the backoff sleep of the scheduler (time.sleep(300)) returns, the
\* scheduler is at the crawl of the next turn: no interval sleep
\* (time.sleep(900)) lies between the backoff and the retry
C27_RetryAfterBackoffOnly ==
    [][thr["sched"].pc = "backoff" => thr'["sched"].pc \in {"backoff", "crawl"}]_vars

\* min(1.0, 0.6 x question similarity + 0.2 x answer similarity
\*          + 0.2 x keywordHits / totalKeywords + bonus), in units of 1/10000
WeightedScore(n, entry) ==
    Min((entry.question_ratio * 100 * 6) \div 10 + (entry.answer_ratio * 100 * 2) \div 10
        + (Min((entry.keyword_hits * 10000) \div n, 10000) * 2) \div 10
        + (IF entry.category_hit THEN 500 ELSE 0),
        10000)

\* the part of C28 that holds: the score lies between 0 and 1
C28_ScoreInUnitInterval ==
    faq.pc = "returned" =>
        \A e \in Range(faq.entries) : ScoreOf(e) >= 0 /\ ScoreOf(e) <= 10000

\* C28: the score of every entry that find_best_match has scored is
\* min(1, 0.6 x similarity(query, question) + 0.2 x similarity(query, answer)
\* + 0.2 x keywordHits / totalKeywords + bonus), and lies between 0 and 1
C28_ScoreIsWeightedSum ==
    faq.pc = "returned" =>
        \A e \in Range(faq.entries) :
            ScoreOf(e) = WeightedScore(faq.keywords, e) /\ ScoreOf(e) >= 0 /\ ScoreOf(e) <= 10000

(***************************************************************************)
(* A re-crawl: the application started while the site served other pages,  *)
(* so scraped_data holds a successful snapshot of every source and the     *)
(* index was built from it; then the scheduler runs its turn on the site   *)
(* of SiteSoup, where any fetch may fail.  A source configured with        *)
(* max_pages 0 makes scrape_website return None.                           *)
(***************************************************************************)
StartupSnapshot == [x \in Range(Sources) |-> IF x = "srm_website" THEN RootPage ELSE AdmissionsPage]

RecrawlConfigs ==
    {[ srm_website |-> [url |-> SeedRoot, enabled |-> TRUE, max_pages |-> m],
       srm_admissions_direct |-> [url |-> SeedAdmissions, enabled |-> e, max_pages |-> n] ] :
        m \in {0, SiteBudget}, n \in {0, ChainBudget}, e \in BOOLEAN}

InitRecrawl ==
    /\ max_pages = 0 /\ visited_urls = {} /\ stack = <<>>
    /\ result = [kind |-> "running", value |-> None]
    /\ fetchLog = <<>> /\ refused = {}
    /\ SCRAPING_SOURCES \in RecrawlConfigs
    /\ scraped_data = StartupSnapshot
    /\ KNOWLEDGE_DATABASE = BuiltIndex(StartupSnapshot)
    /\ last_database_update = 1
    /\ clock = 2
    /\ thr = [t \in Threads |-> [pc |-> IF t = "req" THEN "idle" ELSE "sleep", si |-> 1, n |-> 0]]
    /\ bld = [t \in Threads |-> IdleBuild]
    /\ qry = IdleQuery
    /\ hist = [NoHistory EXCEPT !.origin = KNOWLEDGE_DATABASE]
    /\ faq = FaqIdle
    /\ calls = <<>>

SpecRecrawl == InitRecrawl /\ [][NextSite]_vars

\* the sources whose seed fetch failed in this turn
FailedSources ==
    {x \in Range(Sources) :
        \E i \in FailedFetches :
            fetchLog[i].depth = 0 /\ fetchLog[i].url = SCRAPING_SOURCES[x].url}

\* the sources whose crawl returned None in this turn, or that were skipped as
\* disabled: nothing was fetched for them
UnfetchedSources ==
    {x \in Range(Sources) :
        \A i \in 1..Len(fetchLog) :
            ~(fetchLog[i].depth = 0 /\ fetchLog[i].url = SCRAPING_SOURCES[x].url)}

\* C29: when a turn of the scheduler has completed, the snapshot of every
\* source whose seed fetch failed in the turn is the error record, the index
\* is the one built from the other sources alone, whatever was crawled at
\* startup, and the startup snapshot of a source is still stored exactly when
\* its crawl returned no record
C29_FailedRecrawlReplacesSnapshot ==
    CycleCompleted =>
        /\ \A x \in FailedSources : scraped_data[x] = ErrorRecord(SCRAPING_SOURCES[x].url, 0)
        /\ KNOWLEDGE_DATABASE =
               BuiltIndex([x \in Range(Sources) |->
                              IF x \in FailedSources THEN None ELSE scraped_data[x]])
        /\ \A x \in Range(Sources) : scraped_data[x] = StartupSnapshot[x] <=> x \in UnfetchedSources

\* the turn has completed with the main site's seed fetch failed and the
\* admissions crawl returning None: the index holds the admissions snapshot of
\* the startup and nothing of the main site's
C29_Witness ==
    /\ CycleCompleted
    /\ FailedSources = {"srm_website"} /\ UnfetchedSources = {"srm_admissions_direct"}
    /\ TextDeadline \in Range(hist.origin["admissions"])
    /\ TextDeadline \notin Range(KNOWLEDGE_DATABASE["admissions"])
    /\ TextApply \in Range(KNOWLEDGE_DATABASE["admissions"])
====
